---- MODULE Spec2Model ----
(***************************************************************************)
(* A model of pebble's in-memory datastore, db/memorystore.go.            *)
(*                                                                         *)
(* The store is one Go struct guarded by an embedded sync.RWMutex.  Each   *)
(* method is modelled as the sequence of steps a goroutine takes: the      *)
(* acquisition of the store lock, each read or write of the maps, and the  *)
(* deferred release.  Goroutines are the elements of Threads; pc is the    *)
(* position of each, arg its parameters and locals, ret the value its      *)
(* last call returned.                                                     *)
(***************************************************************************)
EXTENDS Integers, Sequences, FiniteSets, TLC

\* ------------------------------------------------------------------ bounds
NumThreads == 2     \* goroutines calling into the store
NumAccts == 2       \* *core.Account objects the callers hold
NumKeys == 2        \* distinct public keys (key material)
MaxRand == 2        \* accountRand.Int63() draws one of MaxRand+1 values
RandStride == 9     \* distance between two drawable values
NumOrders == 2      \* *core.Order objects
NumAuthzs == 2      \* *core.Authorization objects
NumChals == 1       \* *core.Challenge objects
MaxHeld == 2        \* most read locks ever left held on one authorization
NumCerts == 2       \* *core.Certificate objects
MaxNameLen == 3     \* longest domain name, in characters
MaxBlocked == 2     \* longest block list
MaxKeyLen == 3      \* longest base64 text of an EAB key, in characters
MaxTime == 1        \* the clock runs from 0 to MaxTime

Threads == 1..NumThreads
Accts == 1..NumAccts
Orders == 1..NumOrders
Authzs == 1..NumAuthzs
Chals == 1..NumChals
Certs == 1..NumCerts
NilPtr == 0         \* the nil pointer, of every pointer type
NilCert == "<nil>"  \* a nil order.CertificateObject

VARIABLES
    pc, arg, ret,                     \* per goroutine
    mWriter, mReaders,                \* MemoryStore.RWMutex
    acctID, acctKey,                  \* core.Account fields ID, Key
    accountsByID, accountsByKeyID,
    ordID, ordAcct, ordStatus,        \* core.Order fields ID, AccountID, Status
    ordWriter, ordReaders,            \* core.Order.RWMutex
    ordState,                         \* what order.GetStatus() computes from the order as it is
    ordReplaced, ordCert,             \* core.Order fields IsReplaced, CertificateObject (its ID)
    ordersByID, ordersByAccountID, ordersByIssuedSerial,
    authzID, authzReaders,            \* core.Authorization field ID and its RWMutex
    authzWriter,                      \* a collaborator's authz.Lock(): "none", "waiting" or "held"
    authzStatus, authzIdent,          \* core.Authorization fields Status, Identifier,
    authzOrder, authzExpires,         \* Order (an order or nil), ExpiresDate
    now,                              \* time.Now()
    authorizationsByID,
    chalID, challengesByID,           \* core.Challenge field ID
    chalReaders,                      \* core.Challenge.RWMutex: the read locks held
    chalWriter,                       \* a collaborator's chal.Lock(): "none", "waiting" or "held"
    certID,                           \* core.Certificate field ID
    certificatesByID, revokedCertificatesByID,
    externalAccountKeysByID,
    blockListByDomain

threadVars == <<pc, arg, ret>>
lockVars == <<mWriter, mReaders>>
acctVars == <<acctID, acctKey, accountsByID, accountsByKeyID>>
\* The fields of an order that collaborators set, and the index of issued serials.
orderFields == <<ordState, ordReplaced, ordCert, ordersByIssuedSerial>>
orderVars == <<ordID, ordAcct, ordStatus, ordWriter, ordReaders, ordersByID, ordersByAccountID, orderFields>>
\* What FindValidAuthorization reads of an authorization, and the clock.
authzFields == <<authzWriter, authzStatus, authzIdent, authzOrder, authzExpires, now>>
authzVars == <<authzID, authzReaders, authorizationsByID, authzFields>>
\* The lock of a challenge.
chalLock == <<chalReaders, chalWriter>>
chalVars == <<chalID, challengesByID, chalLock>>
certVars == <<certID, certificatesByID, revokedCertificatesByID>>
eabVars == <<externalAccountKeysByID>>
blockVars == <<blockListByDomain>>
vars == <<threadVars, lockVars, acctVars, orderVars, authzVars, chalVars, certVars, eabVars, blockVars>>

\* ------------------------------------------------------------- Go's maps
EmptyMap == [x \in {} |-> NilPtr]
Present(m, k) == k \in DOMAIN m
MapGet(m, k) == IF k \in DOMAIN m THEN m[k] ELSE NilPtr
MapPut(m, k, v) == [x \in DOMAIN m \cup {k} |-> IF x = k THEN v ELSE m[x]]
MapDelete(m, k) == [x \in DOMAIN m \ {k} |-> m[x]]
MapLen(m) == Cardinality(DOMAIN m)
Range(f) == {f[x] : x \in DOMAIN f}

\* ------------------------------------------------------------ goroutines
NoArg == [op |-> "none"]
NoRet == [op |-> "none", err |-> "", val |-> NilPtr]
Idle(t) == pc[t] = "idle"

\* sync.RWMutex of the store: Lock waits for no writer and no reader, RLock for
\* no writer.
CanLock_NoExclusion == TRUE
CanLock == mWriter = NilPtr /\ mReaders = {}
CanRLock == mWriter = NilPtr

\* A call that takes the exclusive lock first thing: m.Lock(); defer m.Unlock().
BeginLocked(t, first, a) ==
    /\ Idle(t)
    /\ CanLock
    /\ mWriter' = t
    /\ UNCHANGED mReaders
    /\ pc' = [pc EXCEPT ![t] = first]
    /\ arg' = [arg EXCEPT ![t] = a]
    /\ ret' = [ret EXCEPT ![t] = NoRet]

\* A call that takes the shared lock first thing: m.RLock(); defer m.RUnlock().
BeginRLocked(t, first, a) ==
    /\ Idle(t)
    /\ CanRLock
    /\ mReaders' = mReaders \cup {t}
    /\ UNCHANGED mWriter
    /\ pc' = [pc EXCEPT ![t] = first]
    /\ arg' = [arg EXCEPT ![t] = a]
    /\ ret' = [ret EXCEPT ![t] = NoRet]

\* The step of a call at position `at` moves to position `to`.
Goto(t, to) == pc' = [pc EXCEPT ![t] = to]

\* return: the value is fixed; what is left is the deferred unlock.  ret holds
\* the value from here until the caller has it.
Return(t, op, err, val) ==
    /\ ret' = [ret EXCEPT ![t] = [op |-> op, err |-> err, val |-> val]]
    /\ pc' = [pc EXCEPT ![t] = "return"]

\* The deferred calls run last in first out, one after the other: every
\* deferred order.Unlock() (lines 247 and 279, line 117), then the deferred
\* m.Unlock() or m.RUnlock().
HeldOrders(t) == {o \in Orders : ordWriter[o] = t}

\* The order whose deferred Unlock() runs next: the one locked last.
\* GetOrdersByAccountID locks the orders of its list in the order of the list;
\* every other call locks one order at most.
LastLocked(t) ==
    IF arg[t].op = "GetOrdersByAccountID"
    THEN LET held == {i \in 1..Len(arg[t].orders) : ordWriter[arg[t].orders[i]] = t}
         IN  arg[t].orders[CHOOSE i \in held : \A j \in held : j <= i]
    ELSE CHOOSE o \in HeldOrders(t) : TRUE

\* One deferred order.Unlock().
DeferredOrderUnlock(t) ==
    /\ pc[t] = "return"
    /\ HeldOrders(t) # {}
    /\ ordWriter' = [ordWriter EXCEPT ![LastLocked(t)] = NilPtr]
    /\ UNCHANGED <<threadVars, lockVars, acctVars, ordID, ordAcct, ordStatus, ordReaders, ordersByID,
                   ordersByAccountID, orderFields, authzVars, chalVars, certVars, eabVars, blockVars>>

\* The deferred m.Unlock() or m.RUnlock(), whichever the call took (none when
\* it returned before locking), and the return to the caller.
DeferredUnlock(t) ==
    /\ pc[t] = "return"
    /\ HeldOrders(t) = {}
    /\ IF mWriter = t
       THEN mWriter' = NilPtr /\ UNCHANGED mReaders
       ELSE mReaders' = mReaders \ {t} /\ UNCHANGED mWriter
    /\ pc' = [pc EXCEPT ![t] = "idle"]
    /\ arg' = [arg EXCEPT ![t] = NoArg]
    /\ ret' = [ret EXCEPT ![t] = NoRet]
    /\ UNCHANGED <<acctVars, orderVars, authzVars, chalVars, certVars, eabVars, blockVars>>

\* ------------------------------------------------------------- keyToID
\* A key is the chain of wrappers around it, outermost first, and the key
\* material inside: "*jwk" a non-nil *jose.JSONWebKey, "jwk" a
\* jose.JSONWebKey value, "nil" a nil *jose.JSONWebKey; material 0 is a value
\* x509.MarshalPKIXPublicKey rejects.
Key(w, m) == [wrap |-> w, mat |-> m]
NilKey == Key(<<"nil">>, 0)
KeyVals ==
    {NilKey, Key(<<"*jwk">>, 0)}
    \cup {Key(<<"*jwk">>, m) : m \in 1..NumKeys}
    \cup {Key(<<"*jwk", "jwk">>, 1)}

HexDigit(d) ==
    <<"0", "1", "2", "3", "4", "5", "6", "7", "8", "9", "a", "b", "c", "d", "e", "f">>[d + 1]

\* strconv.FormatInt(n, 16) for n >= 0, as the sequence of its characters.
RECURSIVE FormatInt16(_)
FormatInt16(n) ==
    IF n < 16 THEN <<HexDigit(n)>> ELSE FormatInt16(n \div 16) \o <<HexDigit(n % 16)>>

\* hex.EncodeToString(sha256.Sum256(der)): two characters per byte; the digest
\* is cut to one byte and SHA-256 replaced by an injective map of the material.
SpkiDigest(m) == (m * 167 + 13) % 256
HexEncode(b) == <<HexDigit(b \div 16), HexDigit(b % 16)>>

KeyErr == [err |-> TRUE, id |-> <<>>]
KeyOk(id) == [err |-> FALSE, id |-> id]

RECURSIVE keyToIDOf(_, _)
keyToIDOf(w, m) ==
    IF w = <<>>
    THEN IF m = 0 THEN KeyErr ELSE KeyOk(HexEncode(SpkiDigest(m)))
    ELSE IF Head(w) = "nil" THEN KeyErr ELSE keyToIDOf(Tail(w), m)

keyToID(key) == keyToIDOf(key.wrap, key.mat)

\* ------------------------------------------------------------- accounts
\* accountRand.Int63(): any of the drawable values.
RandVals == {r * RandStride : r \in 0..MaxRand}
AcctIDs == {FormatInt16(r) : r \in RandVals}

GetAccountByID_RLock(t, id) ==
    /\ BeginRLocked(t, "GetAccountByID", [op |-> "GetAccountByID", id |-> id])
    /\ UNCHANGED <<acctVars, orderVars, authzVars, chalVars, certVars, eabVars, blockVars>>

GetAccountByID_Read(t) ==
    /\ pc[t] = "GetAccountByID"
    /\ Return(t, "GetAccountByID", "", MapGet(accountsByID, arg[t].id))
    /\ UNCHANGED <<arg, lockVars, acctVars, orderVars, authzVars, chalVars, certVars, eabVars, blockVars>>

\* keyToID fails before the lock is taken.
GetAccountByKey_BadKey(t, key) ==
    /\ Idle(t)
    /\ keyToID(key).err
    /\ Return(t, "GetAccountByKey", "keyToID", NilPtr)
    /\ UNCHANGED <<arg, lockVars, acctVars, orderVars, authzVars, chalVars, certVars, eabVars, blockVars>>

GetAccountByKey_RLock(t, key) ==
    /\ ~keyToID(key).err
    /\ BeginRLocked(t, "GetAccountByKey", [op |-> "GetAccountByKey", keyID |-> keyToID(key).id])
    /\ UNCHANGED <<acctVars, orderVars, authzVars, chalVars, certVars, eabVars, blockVars>>

GetAccountByKey_Read(t) ==
    /\ pc[t] = "GetAccountByKey"
    /\ Return(t, "GetAccountByKey", "", MapGet(accountsByKeyID, arg[t].keyID))
    /\ UNCHANGED <<arg, lockVars, acctVars, orderVars, authzVars, chalVars, certVars, eabVars, blockVars>>

\* AddAccount as its caller sees it before the lock is granted: the call is made
\* and m.Lock() waits.
AddAccount_Call(t, acct) ==
    /\ Idle(t)
    /\ pc' = [pc EXCEPT ![t] = "AddAccount_lock"]
    /\ arg' = [arg EXCEPT ![t] = [op |-> "AddAccount", acct |-> acct]]
    /\ UNCHANGED <<ret, lockVars, acctVars, orderVars, authzVars, chalVars, certVars, eabVars, blockVars>>

AddAccount_Acquire(t) ==
    /\ pc[t] = "AddAccount_lock"
    /\ CanLock
    /\ mWriter' = t
    /\ Goto(t, "AddAccount")
    /\ UNCHANGED <<arg, ret, mReaders, acctVars, orderVars, authzVars, chalVars, certVars, eabVars, blockVars>>

\* Line 162: whether the fingerprint is taken.
KeyExists_Never(byKeyID, keyID) == FALSE
KeyExists(byKeyID, keyID) == Present(byKeyID, keyID)

AddAccount_Lock(t, acct) ==
    /\ BeginLocked(t, "AddAccount", [op |-> "AddAccount", acct |-> acct])
    /\ UNCHANGED <<acctVars, orderVars, authzVars, chalVars, certVars, eabVars, blockVars>>

\* Lines 145-164: the nil and keyToID checks, the loop that draws an unused
\* ID (it ends with a draw that is not a key of accountsByID), the check of
\* the fingerprint.
AddAccount_Check(t) ==
    /\ pc[t] = "AddAccount"
    /\ LET acct == arg[t].acct
           k == keyToID(acctKey[acct])
       IN  IF acctKey[acct] = NilKey
           THEN Return(t, "AddAccount", "nil Key", 0) /\ UNCHANGED arg
           ELSE IF k.err
           THEN Return(t, "AddAccount", "keyToID", 0) /\ UNCHANGED arg
           ELSE \E r \in RandVals :
                  /\ ~Present(accountsByID, FormatInt16(r))
                  /\ IF KeyExists(accountsByKeyID, k.id)
                     THEN Return(t, "AddAccount", "key exists", 0) /\ UNCHANGED arg
                     ELSE /\ arg' = [arg EXCEPT ![t] =
                                [op |-> "AddAccount", acct |-> acct,
                                 acctID |-> FormatInt16(r), keyID |-> k.id]]
                          /\ Goto(t, "AddAccount_byID")
                          /\ UNCHANGED ret
    /\ UNCHANGED <<lockVars, acctVars, orderVars, authzVars, chalVars, certVars, eabVars, blockVars>>

\* Lines 166-167.
AddAccount_InsertByID(t) ==
    /\ pc[t] = "AddAccount_byID"
    /\ acctID' = [acctID EXCEPT ![arg[t].acct] = arg[t].acctID]
    /\ accountsByID' = MapPut(accountsByID, arg[t].acctID, arg[t].acct)
    /\ Goto(t, "AddAccount_byKey")
    /\ UNCHANGED <<arg, ret, lockVars, acctKey, accountsByKeyID, orderVars, authzVars, chalVars, certVars, eabVars, blockVars>>

\* Lines 168-169.
AddAccount_InsertByKey(t) ==
    /\ pc[t] = "AddAccount_byKey"
    /\ accountsByKeyID' = MapPut(accountsByKeyID, arg[t].keyID, arg[t].acct)
    /\ Return(t, "AddAccount", "", MapLen(accountsByID))
    /\ UNCHANGED <<arg, lockVars, acctID, acctKey, accountsByID, orderVars, authzVars, chalVars, certVars, eabVars, blockVars>>

UpdateAccountByID_Lock(t, id, acct) ==
    /\ BeginLocked(t, "UpdateAccountByID", [op |-> "UpdateAccountByID", id |-> id, acct |-> acct])
    /\ UNCHANGED <<acctVars, orderVars, authzVars, chalVars, certVars, eabVars, blockVars>>

\* Lines 129-135.
UpdateAccountByID_Check(t) ==
    /\ pc[t] = "UpdateAccountByID"
    /\ LET k == keyToID(acctKey[arg[t].acct])
       IN  IF MapGet(accountsByID, arg[t].id) = NilPtr
           THEN Return(t, "UpdateAccountByID", "does not exist", 0) /\ UNCHANGED arg
           ELSE IF k.err
           THEN Return(t, "UpdateAccountByID", "keyToID", 0) /\ UNCHANGED arg
           ELSE /\ arg' = [arg EXCEPT ![t] =
                      [op |-> "UpdateAccountByID", id |-> arg[t].id,
                       acct |-> arg[t].acct, keyID |-> k.id]]
                /\ Goto(t, "UpdateAccountByID_byID")
                /\ UNCHANGED ret
    /\ UNCHANGED <<lockVars, acctVars, orderVars, authzVars, chalVars, certVars, eabVars, blockVars>>

\* Line 136.
UpdateAccountByID_SetByID(t) ==
    /\ pc[t] = "UpdateAccountByID_byID"
    /\ accountsByID' = MapPut(accountsByID, arg[t].id, arg[t].acct)
    /\ Goto(t, "UpdateAccountByID_byKey")
    /\ UNCHANGED <<arg, ret, lockVars, acctID, acctKey, accountsByKeyID, orderVars, authzVars, chalVars, certVars, eabVars, blockVars>>

\* Lines 137-138.
UpdateAccountByID_SetByKey(t) ==
    /\ pc[t] = "UpdateAccountByID_byKey"
    /\ accountsByKeyID' = MapPut(accountsByKeyID, arg[t].keyID, arg[t].acct)
    /\ Return(t, "UpdateAccountByID", "", 0)
    /\ UNCHANGED <<arg, lockVars, acctID, acctKey, accountsByID, orderVars, authzVars, chalVars, certVars, eabVars, blockVars>>

ChangeAccountKey_Lock(t, acct, newKey) ==
    /\ BeginLocked(t, "ChangeAccountKey", [op |-> "ChangeAccountKey", acct |-> acct, newKey |-> newKey])
    /\ UNCHANGED <<acctVars, orderVars, authzVars, chalVars, certVars, eabVars, blockVars>>

\* Line 186: whether ChangeAccountKey reports a key conflict, given the
\* fingerprint map, the account and the fingerprint of the new key.
KeyConflict_OtherOnly(byKeyID, acct, newKeyID) ==
    Present(byKeyID, newKeyID) /\ byKeyID[newKeyID] # acct
KeyConflict(byKeyID, acct, newKeyID) == Present(byKeyID, newKeyID)

\* Line 187: the account the error carries.
MatchingAccount_Self(byKeyID, acct, newKeyID) == acct
MatchingAccount(byKeyID, acct, newKeyID) == byKeyID[newKeyID]

\* Lines 176-188.
ChangeAccountKey_Check(t) ==
    /\ pc[t] = "ChangeAccountKey"
    /\ LET acct == arg[t].acct
           old == keyToID(acctKey[acct])
           new == keyToID(arg[t].newKey)
       IN  IF old.err \/ new.err
           THEN Return(t, "ChangeAccountKey", "keyToID", 0) /\ UNCHANGED arg
           ELSE IF KeyConflict(accountsByKeyID, acct, new.id)
           THEN /\ Return(t, "ChangeAccountKey", "ExistingAccountError",
                          MatchingAccount(accountsByKeyID, acct, new.id))
                /\ UNCHANGED arg
           ELSE /\ arg' = [arg EXCEPT ![t] =
                      [op |-> "ChangeAccountKey", acct |-> acct, newKey |-> arg[t].newKey,
                       oldKeyID |-> old.id, newKeyID |-> new.id]]
                /\ Goto(t, "ChangeAccountKey_delete")
                /\ UNCHANGED ret
    /\ UNCHANGED <<lockVars, acctVars, orderVars, authzVars, chalVars, certVars, eabVars, blockVars>>

\* Line 190.
ChangeAccountKey_Delete(t) ==
    /\ pc[t] = "ChangeAccountKey_delete"
    /\ accountsByKeyID' = MapDelete(accountsByKeyID, arg[t].oldKeyID)
    /\ Goto(t, "ChangeAccountKey_install")
    /\ UNCHANGED <<arg, ret, lockVars, acctID, acctKey, accountsByID, orderVars, authzVars, chalVars, certVars, eabVars, blockVars>>

\* Lines 191-192.
ChangeAccountKey_Install(t) ==
    /\ pc[t] = "ChangeAccountKey_install"
    /\ acctKey' = [acctKey EXCEPT ![arg[t].acct] = arg[t].newKey]
    /\ accountsByKeyID' = MapPut(accountsByKeyID, arg[t].newKeyID, arg[t].acct)
    /\ Goto(t, "ChangeAccountKey_republish")
    /\ UNCHANGED <<arg, ret, lockVars, acctID, accountsByID, orderVars, authzVars, chalVars, certVars, eabVars, blockVars>>

\* Lines 193-194.
ChangeAccountKey_Republish(t) ==
    /\ pc[t] = "ChangeAccountKey_republish"
    /\ accountsByID' = MapPut(accountsByID, acctID[arg[t].acct], arg[t].acct)
    /\ Return(t, "ChangeAccountKey", "", 0)
    /\ UNCHANGED <<arg, lockVars, acctID, acctKey, accountsByKeyID, orderVars, authzVars, chalVars, certVars, eabVars, blockVars>>

\* ------------------------------------------------------------------ Init
\* NewMemoryStore: every map empty, the lock free.  The objects the callers
\* hold exist outside the store; InitObjects fixes the fields that no
\* specification below draws.
InitStore ==
    /\ pc = [t \in Threads |-> "idle"]
    /\ arg = [t \in Threads |-> NoArg]
    /\ ret = [t \in Threads |-> NoRet]
    /\ mWriter = NilPtr
    /\ mReaders = {}
    /\ accountsByID = EmptyMap
    /\ accountsByKeyID = EmptyMap
    /\ ordersByID = EmptyMap
    /\ ordersByAccountID = EmptyMap
    /\ authorizationsByID = EmptyMap
    /\ challengesByID = EmptyMap
    /\ certificatesByID = EmptyMap
    /\ revokedCertificatesByID = EmptyMap
    /\ externalAccountKeysByID = EmptyMap
    /\ blockListByDomain = <<>>
    /\ acctID = [a \in Accts |-> <<>>]
    /\ ordStatus = [o \in Orders |-> "pending"]
    /\ ordWriter = [o \in Orders |-> NilPtr]
    /\ ordReaders = [o \in Orders |-> {}]
    /\ authzReaders = [z \in Authzs |-> 0]
    /\ chalReaders = [c \in Chals |-> 0]
    /\ chalWriter = [c \in Chals |-> "none"]
    /\ ordersByIssuedSerial = EmptyMap
    /\ ordState = [o \in Orders |-> "pending"]
    /\ ordReplaced = [o \in Orders |-> FALSE]
    /\ ordCert = [o \in Orders |-> NilCert]
    /\ authzWriter = [z \in Authzs |-> "none"]
    /\ authzStatus = [z \in Authzs |-> "pending"]
    /\ authzIdent = [z \in Authzs |-> ""]
    /\ authzOrder = [z \in Authzs |-> NilPtr]
    /\ authzExpires = [z \in Authzs |-> 0]
    /\ now = 0

InitAccts == acctKey \in [Accts -> KeyVals]
NoAccts == acctKey = [a \in Accts |-> NilKey]
\* An object the callers have not constructed yet has NoObj for its ID.
NoObj == "<none>"
NoOrders ==
    /\ ordID = [o \in Orders |-> NoObj]
    /\ ordAcct = [o \in Orders |-> ""]
    /\ authzID = [z \in Authzs |-> NoObj]
    /\ chalID = [c \in Chals |-> NoObj]
NoCerts == certID = [c \in Certs |-> NoObj]

\* The orders have been constructed, none is stored; no authorization or
\* challenge has been constructed.
OrdersExist ==
    /\ ordID = [o \in Orders |-> IF o = 1 THEN "o1" ELSE "o2"]
    /\ ordAcct = [o \in Orders |-> IF o = 1 THEN "a1" ELSE "a2"]
    /\ authzID = [z \in Authzs |-> NoObj]
    /\ chalID = [c \in Chals |-> NoObj]

\* ------------------------------------------------- the account index alone
NextAcct ==
    \E t \in Threads :
        \/ \E id \in AcctIDs \cup {<<>>} : GetAccountByID_RLock(t, id)
        \/ GetAccountByID_Read(t)
        \/ \E k \in KeyVals : GetAccountByKey_BadKey(t, k)
        \/ \E k \in KeyVals : GetAccountByKey_RLock(t, k)
        \/ GetAccountByKey_Read(t)
        \/ \E a \in Accts : AddAccount_Lock(t, a)
        \/ AddAccount_Check(t)
        \/ AddAccount_InsertByID(t)
        \/ AddAccount_InsertByKey(t)
        \/ \E id \in AcctIDs, a \in Accts : UpdateAccountByID_Lock(t, id, a)
        \/ UpdateAccountByID_Check(t)
        \/ UpdateAccountByID_SetByID(t)
        \/ UpdateAccountByID_SetByKey(t)
        \/ \E a \in Accts, k \in KeyVals : ChangeAccountKey_Lock(t, a, k)
        \/ ChangeAccountKey_Check(t)
        \/ ChangeAccountKey_Delete(t)
        \/ ChangeAccountKey_Install(t)
        \/ ChangeAccountKey_Republish(t)
        \/ DeferredUnlock(t)

InitAcct == InitStore /\ InitAccts /\ NoOrders /\ NoCerts
SpecAcct == InitAcct /\ [][NextAcct]_vars

\* --------------------------------------------------------------- orders
OrderIDs == {"", "o1", "o2"}
OrderAccts == {"a1", "a2"}
StatusVals == {"pending", "valid"}

\* A caller constructs an order; ID and AccountID stay as constructed.
NewOrder(o, id, acct) ==
    /\ ordID[o] = NoObj
    /\ ordID' = [ordID EXCEPT ![o] = id]
    /\ ordAcct' = [ordAcct EXCEPT ![o] = acct]
    /\ UNCHANGED <<threadVars, lockVars, acctVars, ordStatus, ordWriter, ordReaders,
                   ordersByID, ordersByAccountID, orderFields, authzVars, chalVars, certVars,
                   eabVars, blockVars>>

\* order.RLock() is granted when no goroutine holds order.Lock().
CanRLockOrder(o) == ordWriter[o] = NilPtr
CanLockOrder(o) == ordWriter[o] = NilPtr /\ ordReaders[o] = {}

AddOrder_Lock(t, o) ==
    /\ ordID[o] # NoObj
    /\ BeginLocked(t, "AddOrder", [op |-> "AddOrder", order |-> o])
    /\ UNCHANGED <<acctVars, orderVars, authzVars, chalVars, certVars, eabVars, blockVars>>

\* Lines 205 and 209: whether AddOrder refuses the ID.
OrderRefused_Never(byID, id) == FALSE
OrderRefused(byID, id) == id = "" \/ Present(byID, id)

\* Line 201: order.RLock(), waited for with m.Lock() held.
AddOrder_RLock(t) ==
    /\ pc[t] = "AddOrder"
    /\ CanRLockOrder(arg[t].order)
    /\ ordReaders' = [ordReaders EXCEPT ![arg[t].order] = @ \cup {t}]
    /\ Goto(t, "AddOrder_read")
    /\ UNCHANGED <<arg, ret, lockVars, acctVars, ordID, ordAcct, ordStatus, ordWriter, ordersByID,
                   ordersByAccountID, orderFields, authzVars, chalVars, certVars, eabVars, blockVars>>

\* Lines 202-211: the fields are read, order.RUnlock() (line 204), and the
\* two refusals, which write nothing.
AddOrder_Check(t) ==
    /\ pc[t] = "AddOrder_read"
    /\ ordReaders' = [ordReaders EXCEPT ![arg[t].order] = @ \ {t}]
    /\ LET o == arg[t].order
       IN  IF OrderRefused(ordersByID, ordID[o])
           THEN /\ Return(t, "AddOrder", IF ordID[o] = "" THEN "empty ID" ELSE "already exists", 0)
                /\ UNCHANGED arg
           ELSE /\ arg' = [arg EXCEPT ![t] =
                      [op |-> "AddOrder", order |-> o, orderID |-> ordID[o], accountID |-> ordAcct[o]]]
                /\ Goto(t, "AddOrder_byAccount")
                /\ UNCHANGED ret
    /\ UNCHANGED <<lockVars, acctVars, ordID, ordAcct, ordStatus, ordWriter, ordersByID,
                   ordersByAccountID, orderFields, authzVars, chalVars, certVars, eabVars, blockVars>>

\* Lines 213-218.
AddOrder_Append(t) ==
    /\ pc[t] = "AddOrder_byAccount"
    /\ LET old == IF Present(ordersByAccountID, arg[t].accountID)
                  THEN ordersByAccountID[arg[t].accountID] ELSE <<>>
       IN  ordersByAccountID' = MapPut(ordersByAccountID, arg[t].accountID, Append(old, arg[t].order))
    /\ Goto(t, "AddOrder_byID")
    /\ UNCHANGED <<arg, ret, lockVars, acctVars, ordID, ordAcct, ordStatus, ordWriter, ordReaders,
                   ordersByID, orderFields, authzVars, chalVars, certVars, eabVars, blockVars>>

\* Lines 220-221.
AddOrder_InsertByID(t) ==
    /\ pc[t] = "AddOrder_byID"
    /\ ordersByID' = MapPut(ordersByID, arg[t].orderID, arg[t].order)
    /\ Return(t, "AddOrder", "", MapLen(ordersByID'))
    /\ UNCHANGED <<arg, lockVars, acctVars, ordID, ordAcct, ordStatus, ordWriter, ordReaders,
                   ordersByAccountID, orderFields, authzVars, chalVars, certVars, eabVars, blockVars>>

GetOrderByID_RLock(t, id) ==
    /\ BeginRLocked(t, "GetOrderByID", [op |-> "GetOrderByID", id |-> id])
    /\ UNCHANGED <<acctVars, orderVars, authzVars, chalVars, certVars, eabVars, blockVars>>

\* Lines 241 and 251.
GetOrderByID_Lookup(t) ==
    /\ pc[t] = "GetOrderByID"
    /\ IF Present(ordersByID, arg[t].id)
       THEN /\ arg' = [arg EXCEPT ![t] =
                  [op |-> "GetOrderByID", id |-> arg[t].id, order |-> ordersByID[arg[t].id]]]
            /\ Goto(t, "GetOrderByID_status")
            /\ UNCHANGED ret
       ELSE Return(t, "GetOrderByID", "", NilPtr) /\ UNCHANGED arg
    /\ UNCHANGED <<lockVars, acctVars, orderVars, authzVars, chalVars, certVars, eabVars, blockVars>>

\* order.GetStatus(): under order.RLock() it computes a status from the order
\* and its authorizations, or fails.  "" stands for the failure.
GetStatusResults == StatusVals \cup {""}

\* The status function is a function of the order as it is: ordState[o] is
\* its value for the present fields of o and of o's authorizations.
GetStatus(o) == ordState[o]

\* A collaborator changes, under order.Lock(), the fields GetStatus reads.
Collab_SetOrderState(o, s) ==
    /\ ordID[o] # NoObj
    /\ CanLockOrder(o)
    /\ s # ordState[o]
    /\ ordState' = [ordState EXCEPT ![o] = s]
    /\ UNCHANGED <<threadVars, lockVars, acctVars, ordID, ordAcct, ordStatus, ordWriter, ordReaders,
                   ordersByID, ordersByAccountID, ordReplaced, ordCert, ordersByIssuedSerial,
                   authzVars, chalVars, certVars, eabVars, blockVars>>

\* Lines 248 and 280: order.Status = orderStatus.
WriteBack_Skipped(status, o, orderStatus) == status
WriteBack(status, o, orderStatus) == [status EXCEPT ![o] = orderStatus]

\* Lines 242-245.
GetOrderByID_GetStatus(t) ==
    /\ pc[t] = "GetOrderByID_status"
    /\ CanRLockOrder(arg[t].order)
    /\ LET s == GetStatus(arg[t].order)
       IN IF s = ""
          THEN Return(t, "GetOrderByID", "panic", NilPtr) /\ UNCHANGED arg
          ELSE /\ arg' = [arg EXCEPT ![t] =
                     [op |-> "GetOrderByID", id |-> arg[t].id, order |-> arg[t].order, orderStatus |-> s]]
               /\ Goto(t, "GetOrderByID_write")
               /\ UNCHANGED ret
    /\ UNCHANGED <<lockVars, acctVars, orderVars, authzVars, chalVars, certVars, eabVars, blockVars>>

\* Lines 246-249: order.Lock(), held until the call returns.
GetOrderByID_Write(t) ==
    /\ pc[t] = "GetOrderByID_write"
    /\ CanLockOrder(arg[t].order)
    /\ ordWriter' = [ordWriter EXCEPT ![arg[t].order] = t]
    /\ ordStatus' = WriteBack(ordStatus, arg[t].order, arg[t].orderStatus)
    /\ Return(t, "GetOrderByID", "", arg[t].order)
    /\ UNCHANGED <<arg, lockVars, acctVars, ordID, ordAcct, ordReaders, ordersByID, ordersByAccountID,
                   orderFields, authzVars, chalVars, certVars, eabVars, blockVars>>

GetOrdersByAccountID_RLock(t, acct) ==
    /\ BeginRLocked(t, "GetOrdersByAccountID", [op |-> "GetOrdersByAccountID", accountID |-> acct])
    /\ UNCHANGED <<acctVars, orderVars, authzVars, chalVars, certVars, eabVars, blockVars>>

\* Lines 272 and 284; an empty list is returned as it is.
GetOrdersByAccountID_Lookup(t) ==
    /\ pc[t] = "GetOrdersByAccountID"
    /\ IF Present(ordersByAccountID, arg[t].accountID)
       THEN LET orders == ordersByAccountID[arg[t].accountID]
            IN  IF orders = <<>>
                THEN Return(t, "GetOrdersByAccountID", "", orders) /\ UNCHANGED arg
                ELSE /\ arg' = [arg EXCEPT ![t] =
                           [op |-> "GetOrdersByAccountID", accountID |-> arg[t].accountID,
                            orders |-> orders, i |-> 1, orderStatus |-> ""]]
                     /\ Goto(t, "GetOrdersByAccountID_status")
                     /\ UNCHANGED ret
       ELSE Return(t, "GetOrdersByAccountID", "", <<>>) /\ UNCHANGED arg
    /\ UNCHANGED <<lockVars, acctVars, orderVars, authzVars, chalVars, certVars, eabVars, blockVars>>

\* Lines 274-277, for the order at position i.
GetOrdersByAccountID_GetStatus(t) ==
    /\ pc[t] = "GetOrdersByAccountID_status"
    /\ CanRLockOrder(arg[t].orders[arg[t].i])
    /\ LET s == GetStatus(arg[t].orders[arg[t].i])
       IN IF s = ""
          THEN Return(t, "GetOrdersByAccountID", "panic", <<>>) /\ UNCHANGED arg
          ELSE /\ arg' = [arg EXCEPT ![t].orderStatus = s]
               /\ Goto(t, "GetOrdersByAccountID_write")
               /\ UNCHANGED ret
    /\ UNCHANGED <<lockVars, acctVars, orderVars, authzVars, chalVars, certVars, eabVars, blockVars>>

\* Lines 278-282: order.Lock(), its Unlock deferred to the end of the call, the
\* write of Status, and the next round of the loop or the return.
GetOrdersByAccountID_Write(t) ==
    /\ pc[t] = "GetOrdersByAccountID_write"
    /\ LET o == arg[t].orders[arg[t].i]
       IN  /\ CanLockOrder(o)
           /\ ordWriter' = [ordWriter EXCEPT ![o] = t]
           /\ ordStatus' = WriteBack(ordStatus, o, arg[t].orderStatus)
    /\ IF arg[t].i < Len(arg[t].orders)
       THEN /\ arg' = [arg EXCEPT ![t].i = @ + 1, ![t].orderStatus = ""]
            /\ Goto(t, "GetOrdersByAccountID_status")
            /\ UNCHANGED ret
       ELSE Return(t, "GetOrdersByAccountID", "", arg[t].orders) /\ UNCHANGED arg
    /\ UNCHANGED <<lockVars, acctVars, ordID, ordAcct, ordReaders, ordersByID, ordersByAccountID,
                   orderFields, authzVars, chalVars, certVars, eabVars, blockVars>>

NextOrder ==
    \/ \E o \in Orders, id \in OrderIDs, a \in OrderAccts : NewOrder(o, id, a)
    \/ \E o \in Orders, s \in GetStatusResults : Collab_SetOrderState(o, s)
    \/ \E t \in Threads :
        \/ \E o \in Orders : AddOrder_Lock(t, o)
        \/ AddOrder_RLock(t)
        \/ AddOrder_Check(t)
        \/ AddOrder_Append(t)
        \/ AddOrder_InsertByID(t)
        \/ \E id \in OrderIDs : GetOrderByID_RLock(t, id)
        \/ GetOrderByID_Lookup(t)
        \/ GetOrderByID_GetStatus(t)
        \/ GetOrderByID_Write(t)
        \/ \E a \in OrderAccts : GetOrdersByAccountID_RLock(t, a)
        \/ GetOrdersByAccountID_Lookup(t)
        \/ GetOrdersByAccountID_GetStatus(t)
        \/ GetOrdersByAccountID_Write(t)
        \/ DeferredOrderUnlock(t)
        \/ DeferredUnlock(t)

InitOrder == InitStore /\ NoAccts /\ NoOrders /\ NoCerts
SpecOrder == InitOrder /\ [][NextOrder]_vars

\* ------------------------------------------------------- replaced orders
\* Certificate IDs, which are the serials of the index; "" is the serial
\* UpdateReplacedOrder refuses.
Serials == {"", "s1", "s2"}

\* A collaborator issues the certificate of an order: order.CertificateObject
\* is set, under order.Lock(), once.
Collab_IssueCertificate(o, serial) ==
    /\ ordID[o] # NoObj
    /\ CanLockOrder(o)
    /\ ordCert[o] = NilCert
    /\ ordCert' = [ordCert EXCEPT ![o] = serial]
    /\ UNCHANGED <<threadVars, lockVars, acctVars, ordID, ordAcct, ordStatus, ordWriter, ordReaders,
                   ordersByID, ordersByAccountID, ordState, ordReplaced, ordersByIssuedSerial,
                   authzVars, chalVars, certVars, eabVars, blockVars>>

\* Lines 224-226.
AddOrderByIssuedSerial_Lock(t, o) ==
    /\ ordID[o] # NoObj
    /\ BeginLocked(t, "AddOrderByIssuedSerial", [op |-> "AddOrderByIssuedSerial", order |-> o])
    /\ UNCHANGED <<acctVars, orderVars, authzVars, chalVars, certVars, eabVars, blockVars>>

\* Lines 228-234: an entry of the same serial is overwritten.
AddOrderByIssuedSerial_Body(t) ==
    /\ pc[t] = "AddOrderByIssuedSerial"
    /\ LET o == arg[t].order
       IN  IF ordCert[o] = NilCert
           THEN /\ Return(t, "AddOrderByIssuedSerial", "no certificate", 0)
                /\ UNCHANGED ordersByIssuedSerial
           ELSE /\ ordersByIssuedSerial' = MapPut(ordersByIssuedSerial, ordCert[o], o)
                /\ Return(t, "AddOrderByIssuedSerial", "", 0)
    /\ UNCHANGED <<arg, lockVars, acctVars, ordID, ordAcct, ordStatus, ordWriter, ordReaders,
                   ordersByID, ordersByAccountID, ordState, ordReplaced, ordCert,
                   authzVars, chalVars, certVars, eabVars, blockVars>>

\* Lines 256-258, called from outside the store.
GetOrderByIssuedSerial_RLock(t, serial) ==
    /\ BeginRLocked(t, "GetOrderByIssuedSerial", [op |-> "GetOrderByIssuedSerial", serial |-> serial])
    /\ UNCHANGED <<acctVars, orderVars, authzVars, chalVars, certVars, eabVars, blockVars>>

\* Lines 260-265.
GetOrderByIssuedSerial_Lookup(t) ==
    /\ pc[t] = "GetOrderByIssuedSerial"
    /\ arg[t].op = "GetOrderByIssuedSerial"
    /\ IF Present(ordersByIssuedSerial, arg[t].serial)
       THEN Return(t, "GetOrderByIssuedSerial", "", ordersByIssuedSerial[arg[t].serial])
       ELSE Return(t, "GetOrderByIssuedSerial", "could not find order", NilPtr)
    /\ UNCHANGED <<arg, lockVars, acctVars, orderVars, authzVars, chalVars, certVars, eabVars, blockVars>>

\* Lines 108-110: the empty serial is refused before any lock.
UpdateReplacedOrder_Reject(t, shouldBeReplaced) ==
    /\ Idle(t)
    /\ Return(t, "UpdateReplacedOrder", "no serial provided", 0)
    /\ arg' = [arg EXCEPT ![t] =
          [op |-> "UpdateReplacedOrder", serial |-> "", shouldBeReplaced |-> shouldBeReplaced]]
    /\ UNCHANGED <<lockVars, acctVars, orderVars, authzVars, chalVars, certVars, eabVars, blockVars>>

\* Lines 107-112: the call is at line 112, about to call
\* GetOrderByIssuedSerial; it has taken no lock.  (Lines 103-105: "We
\* intentionally don't Lock the database inside this method"; the variant
\* that does comes first.)
UpdateReplacedOrder_Call_Locked(t, serial, shouldBeReplaced) ==
    /\ Idle(t)
    /\ serial # ""
    /\ CanLock
    /\ mWriter' = t
    /\ pc' = [pc EXCEPT ![t] = "UpdateReplacedOrder"]
    /\ arg' = [arg EXCEPT ![t] =
          [op |-> "UpdateReplacedOrder", serial |-> serial, shouldBeReplaced |-> shouldBeReplaced]]
    /\ ret' = [ret EXCEPT ![t] = NoRet]
    /\ UNCHANGED <<mReaders, acctVars, orderVars, authzVars, chalVars, certVars, eabVars, blockVars>>

UpdateReplacedOrder_Call(t, serial, shouldBeReplaced) ==
    /\ Idle(t)
    /\ serial # ""
    /\ pc' = [pc EXCEPT ![t] = "UpdateReplacedOrder"]
    /\ arg' = [arg EXCEPT ![t] =
          [op |-> "UpdateReplacedOrder", serial |-> serial, shouldBeReplaced |-> shouldBeReplaced]]
    /\ ret' = [ret EXCEPT ![t] = NoRet]
    /\ UNCHANGED <<lockVars, acctVars, orderVars, authzVars, chalVars, certVars, eabVars, blockVars>>

\* Line 112 into line 257: the m.RLock() of the lookup called.
UpdateReplacedOrder_RLock(t) ==
    /\ pc[t] = "UpdateReplacedOrder"
    /\ CanRLock
    /\ mReaders' = mReaders \cup {t}
    /\ Goto(t, "GetOrderByIssuedSerial")
    /\ UNCHANGED <<arg, ret, mWriter, acctVars, orderVars, authzVars, chalVars, certVars, eabVars,
                   blockVars>>

\* Line 258: the deferred m.RUnlock() of the lookup, run when it returns.
RUnlock_Kept(readers, t) == readers
RUnlock(readers, t) == readers \ {t}

\* Lines 260-265 and back in lines 112-115: the lookup, its deferred
\* m.RUnlock(), and the error returned when the serial is not indexed.
UpdateReplacedOrder_Lookup(t) ==
    /\ pc[t] = "GetOrderByIssuedSerial"
    /\ arg[t].op = "UpdateReplacedOrder"
    /\ mReaders' = RUnlock(mReaders, t)
    /\ IF Present(ordersByIssuedSerial, arg[t].serial)
       THEN /\ arg' = [arg EXCEPT ![t] =
                  [op |-> "UpdateReplacedOrder", serial |-> arg[t].serial,
                   shouldBeReplaced |-> arg[t].shouldBeReplaced,
                   originalOrder |-> ordersByIssuedSerial[arg[t].serial]]]
            /\ Goto(t, "UpdateReplacedOrder_lock")
            /\ UNCHANGED ret
       ELSE Return(t, "UpdateReplacedOrder", "could not find an order", 0) /\ UNCHANGED arg
    /\ UNCHANGED <<mWriter, acctVars, orderVars, authzVars, chalVars, certVars, eabVars, blockVars>>

\* Line 118: originalOrder.IsReplaced = shouldBeReplaced.
SetReplaced_All(replaced, o, shouldBeReplaced) == [x \in DOMAIN replaced |-> shouldBeReplaced]
SetReplaced(replaced, o, shouldBeReplaced) == [replaced EXCEPT ![o] = shouldBeReplaced]

\* Lines 116-120: originalOrder.Lock(), held until the call returns.
UpdateReplacedOrder_Set(t) ==
    /\ pc[t] = "UpdateReplacedOrder_lock"
    /\ CanLockOrder(arg[t].originalOrder)
    /\ ordWriter' = [ordWriter EXCEPT ![arg[t].originalOrder] = t]
    /\ ordReplaced' = SetReplaced(ordReplaced, arg[t].originalOrder, arg[t].shouldBeReplaced)
    /\ Return(t, "UpdateReplacedOrder", "", 0)
    /\ UNCHANGED <<arg, lockVars, acctVars, ordID, ordAcct, ordStatus, ordReaders, ordersByID,
                   ordersByAccountID, ordState, ordCert, ordersByIssuedSerial,
                   authzVars, chalVars, certVars, eabVars, blockVars>>

NextReplace ==
    \/ \E o \in Orders, serial \in Serials : Collab_IssueCertificate(o, serial)
    \/ \E t \in Threads :
        \/ \E o \in Orders : AddOrderByIssuedSerial_Lock(t, o)
        \/ AddOrderByIssuedSerial_Body(t)
        \/ \E serial \in Serials : GetOrderByIssuedSerial_RLock(t, serial)
        \/ GetOrderByIssuedSerial_Lookup(t)
        \/ \E b \in BOOLEAN : UpdateReplacedOrder_Reject(t, b)
        \/ \E serial \in Serials, b \in BOOLEAN : UpdateReplacedOrder_Call(t, serial, b)
        \/ UpdateReplacedOrder_RLock(t)
        \/ UpdateReplacedOrder_Lookup(t)
        \/ UpdateReplacedOrder_Set(t)
        \/ DeferredOrderUnlock(t)
        \/ DeferredUnlock(t)

InitReplace == InitStore /\ NoAccts /\ OrdersExist /\ NoCerts
SpecReplace == InitReplace /\ [][NextReplace]_vars

\* Reading an order while it is marked replaced: one goroutine indexes orders
\* by serial and marks them, the others store and read them.
Replacers == {1}
RaceSerials == {"s1"}

NextRace ==
    \/ \E o \in Orders, serial \in RaceSerials : Collab_IssueCertificate(o, serial)
    \/ \E o \in Orders, s \in GetStatusResults : Collab_SetOrderState(o, s)
    \/ \E t \in Replacers :
        \/ \E o \in Orders : AddOrderByIssuedSerial_Lock(t, o)
        \/ \E serial \in RaceSerials, b \in BOOLEAN : UpdateReplacedOrder_Call(t, serial, b)
    \/ \E t \in Threads \ Replacers :
        \/ \E o \in Orders : AddOrder_Lock(t, o)
        \/ \E id \in OrderIDs : GetOrderByID_RLock(t, id)
    \/ \E t \in Threads :
        \/ AddOrderByIssuedSerial_Body(t)
        \/ UpdateReplacedOrder_RLock(t)
        \/ UpdateReplacedOrder_Lookup(t)
        \/ UpdateReplacedOrder_Set(t)
        \/ AddOrder_RLock(t)
        \/ AddOrder_Check(t)
        \/ AddOrder_Append(t)
        \/ AddOrder_InsertByID(t)
        \/ GetOrderByID_Lookup(t)
        \/ GetOrderByID_GetStatus(t)
        \/ GetOrderByID_Write(t)
        \/ DeferredOrderUnlock(t)
        \/ DeferredUnlock(t)

InitRace == InitStore /\ NoAccts /\ OrdersExist /\ NoCerts
SpecRace == InitRace /\ [][NextRace]_vars

\* ---------------------------------------- authorizations and challenges
AuthzIDs == {"", "z1"}
ChalIDs == {"", "c1"}

NewAuthorization(z, id) ==
    /\ authzID[z] = NoObj
    /\ authzID' = [authzID EXCEPT ![z] = id]
    /\ UNCHANGED <<threadVars, lockVars, acctVars, orderVars, authzReaders, authorizationsByID,
                   authzFields, chalVars, certVars, eabVars, blockVars>>

NewChallenge(c, id) ==
    /\ chalID[c] = NoObj
    /\ chalID' = [chalID EXCEPT ![c] = id]
    /\ UNCHANGED <<threadVars, lockVars, acctVars, orderVars, authzVars, challengesByID, chalLock,
                   certVars, eabVars, blockVars>>

\* authz.RLock() is granted when no goroutine holds or waits for authz.Lock():
\* a Lock() that waits for the readers to leave keeps new readers out.
CanRLockAuthz(z) == authzWriter[z] = "none"

\* The calls that would leave one more read lock held stop at MaxHeld.
AddAuthorization_Lock(t, z) ==
    /\ authzID[z] # NoObj
    /\ authzID[z] = "" => authzReaders[z] < MaxHeld
    /\ BeginLocked(t, "AddAuthorization", [op |-> "AddAuthorization", authz |-> z])
    /\ UNCHANGED <<acctVars, orderVars, authzVars, chalVars, certVars, eabVars, blockVars>>

\* Line 291: authz.RLock(), waited for with m.Lock() held.
AddAuthorization_RLock(t) ==
    /\ pc[t] = "AddAuthorization"
    /\ CanRLockAuthz(arg[t].authz)
    /\ authzReaders' = [authzReaders EXCEPT ![arg[t].authz] = @ + 1]
    /\ Goto(t, "AddAuthorization_read")
    /\ UNCHANGED <<arg, ret, lockVars, acctVars, orderVars, authzID, authorizationsByID, authzFields,
                   chalVars, certVars, eabVars, blockVars>>

\* Lines 292-296.  The return at line 294 comes before authz.RUnlock() at line
\* 296: the read lock taken at line 291 stays held.
AddAuthorization_Read(t) ==
    /\ pc[t] = "AddAuthorization_read"
    /\ LET z == arg[t].authz
       IN  IF authzID[z] = ""
           THEN /\ Return(t, "AddAuthorization", "empty ID", 0)
                /\ UNCHANGED <<arg, authzReaders>>
           ELSE /\ authzReaders' = [authzReaders EXCEPT ![z] = @ - 1]
                /\ arg' = [arg EXCEPT ![t] =
                      [op |-> "AddAuthorization", authz |-> z, authzID |-> authzID[z]]]
                /\ Goto(t, "AddAuthorization_insert")
                /\ UNCHANGED ret
    /\ UNCHANGED <<lockVars, acctVars, orderVars, authzID, authorizationsByID, authzFields,
                   chalVars, certVars, eabVars, blockVars>>

\* Lines 298-303, the authorization's lock no longer held.
AddAuthorization_Insert(t) ==
    /\ pc[t] = "AddAuthorization_insert"
    /\ IF Present(authorizationsByID, arg[t].authzID)
       THEN /\ Return(t, "AddAuthorization", "already exists", 0)
            /\ UNCHANGED authorizationsByID
       ELSE /\ authorizationsByID' = MapPut(authorizationsByID, arg[t].authzID, arg[t].authz)
            /\ Return(t, "AddAuthorization", "", MapLen(authorizationsByID'))
    /\ UNCHANGED <<arg, lockVars, acctVars, orderVars, authzID, authzReaders, authzFields,
                   chalVars, certVars, eabVars, blockVars>>

\* A collaborator (the code that validates a challenge) locks it: chal.Lock()
\* is asked for, is granted when no reader is left, and is released.
Collab_LockChal(c) ==
    /\ chalID[c] # NoObj
    /\ chalWriter[c] = "none"
    /\ chalWriter' = [chalWriter EXCEPT ![c] = "waiting"]
    /\ UNCHANGED <<threadVars, lockVars, acctVars, orderVars, authzVars, chalID, challengesByID,
                   chalReaders, certVars, eabVars, blockVars>>

Collab_AcquireChal(c) ==
    /\ chalWriter[c] = "waiting"
    /\ chalReaders[c] = 0
    /\ chalWriter' = [chalWriter EXCEPT ![c] = "held"]
    /\ UNCHANGED <<threadVars, lockVars, acctVars, orderVars, authzVars, chalID, challengesByID,
                   chalReaders, certVars, eabVars, blockVars>>

Collab_UnlockChal(c) ==
    /\ chalWriter[c] = "held"
    /\ chalWriter' = [chalWriter EXCEPT ![c] = "none"]
    /\ UNCHANGED <<threadVars, lockVars, acctVars, orderVars, authzVars, chalID, challengesByID,
                   chalReaders, certVars, eabVars, blockVars>>

\* chal.RLock() is granted when no goroutine holds or waits for chal.Lock().
CanRLockChal(c) == chalWriter[c] = "none"

\* Lines 333-335.
AddChallenge_Lock(t, c) ==
    /\ chalID[c] # NoObj
    /\ BeginLocked(t, "AddChallenge", [op |-> "AddChallenge", chal |-> c])
    /\ UNCHANGED <<acctVars, orderVars, authzVars, chalVars, certVars, eabVars, blockVars>>

\* Line 337: chal.RLock(), waited for with m.Lock() held.
AddChallenge_RLock(t) ==
    /\ pc[t] = "AddChallenge"
    /\ CanRLockChal(arg[t].chal)
    /\ chalReaders' = [chalReaders EXCEPT ![arg[t].chal] = @ + 1]
    /\ Goto(t, "AddChallenge_read")
    /\ UNCHANGED <<arg, ret, lockVars, acctVars, orderVars, authzVars, chalID, challengesByID,
                   chalWriter, certVars, eabVars, blockVars>>

\* Lines 338-339: the ID is read and chal.RUnlock() called.
AddChallenge_Read(t) ==
    /\ pc[t] = "AddChallenge_read"
    /\ chalReaders' = [chalReaders EXCEPT ![arg[t].chal] = @ - 1]
    /\ arg' = [arg EXCEPT ![t] =
          [op |-> "AddChallenge", chal |-> arg[t].chal, chalID |-> chalID[arg[t].chal]]]
    /\ Goto(t, "AddChallenge_insert")
    /\ UNCHANGED <<ret, lockVars, acctVars, orderVars, authzVars, chalID, challengesByID,
                   chalWriter, certVars, eabVars, blockVars>>

\* Lines 340-349, the challenge's lock no longer held.
AddChallenge_Insert(t) ==
    /\ pc[t] = "AddChallenge_insert"
    /\ IF arg[t].chalID = ""
       THEN Return(t, "AddChallenge", "empty ID", 0) /\ UNCHANGED challengesByID
       ELSE IF Present(challengesByID, arg[t].chalID)
       THEN Return(t, "AddChallenge", "already exists", 0) /\ UNCHANGED challengesByID
       ELSE /\ challengesByID' = MapPut(challengesByID, arg[t].chalID, arg[t].chal)
            /\ Return(t, "AddChallenge", "", MapLen(challengesByID'))
    /\ UNCHANGED <<arg, lockVars, acctVars, orderVars, authzVars, chalID, chalLock,
                   certVars, eabVars, blockVars>>

\* ------------------------------------------------------- the Adds alone
NextAdds ==
    \/ \E o \in Orders, id \in OrderIDs, a \in OrderAccts : NewOrder(o, id, a)
    \/ \E z \in Authzs, id \in AuthzIDs : NewAuthorization(z, id)
    \/ \E c \in Chals, id \in ChalIDs : NewChallenge(c, id)
    \/ \E c \in Chals : Collab_LockChal(c)
    \/ \E c \in Chals : Collab_AcquireChal(c)
    \/ \E c \in Chals : Collab_UnlockChal(c)
    \/ \E t \in Threads :
        \/ \E o \in Orders : AddOrder_Lock(t, o)
        \/ AddOrder_RLock(t)
        \/ AddOrder_Check(t)
        \/ AddOrder_Append(t)
        \/ AddOrder_InsertByID(t)
        \/ \E z \in Authzs : AddAuthorization_Lock(t, z)
        \/ AddAuthorization_RLock(t)
        \/ AddAuthorization_Read(t)
        \/ AddAuthorization_Insert(t)
        \/ \E c \in Chals : AddChallenge_Lock(t, c)
        \/ AddChallenge_RLock(t)
        \/ AddChallenge_Read(t)
        \/ AddChallenge_Insert(t)
        \/ DeferredUnlock(t)

InitAdds == InitStore /\ NoAccts /\ NoOrders /\ NoCerts
SpecAdds == InitAdds /\ [][NextAdds]_vars

\* ------------------------------------------- finding a valid authorization
Idents == {"d1", "d2"}
FullAuthzIDs == {"z1", "z2"}

\* A caller constructs an authorization with all its fields; Status starts
\* pending, Order is an order or nil.
NewAuthorizationFor(z, id, ident, o, expires) ==
    /\ authzID[z] = NoObj
    /\ authzID' = [authzID EXCEPT ![z] = id]
    /\ authzIdent' = [authzIdent EXCEPT ![z] = ident]
    /\ authzOrder' = [authzOrder EXCEPT ![z] = o]
    /\ authzExpires' = [authzExpires EXCEPT ![z] = expires]
    /\ UNCHANGED <<threadVars, lockVars, acctVars, orderVars, authzReaders, authorizationsByID,
                   authzWriter, authzStatus, now, chalVars, certVars, eabVars, blockVars>>

\* Line 318: authorizations are "mutated outside the scope of the MemoryStore
\* lock".  A collaborator calls authz.Lock(), waits for the readers to leave,
\* sets Status and unlocks.
Collab_LockAuthz(z) ==
    /\ authzID[z] # NoObj
    /\ authzWriter[z] = "none"
    /\ authzWriter' = [authzWriter EXCEPT ![z] = "waiting"]
    /\ UNCHANGED <<threadVars, lockVars, acctVars, orderVars, authzID, authzReaders, authorizationsByID,
                   authzStatus, authzIdent, authzOrder, authzExpires, now,
                   chalVars, certVars, eabVars, blockVars>>

Collab_AcquireAuthz(z) ==
    /\ authzWriter[z] = "waiting"
    /\ authzReaders[z] = 0
    /\ authzWriter' = [authzWriter EXCEPT ![z] = "held"]
    /\ UNCHANGED <<threadVars, lockVars, acctVars, orderVars, authzID, authzReaders, authorizationsByID,
                   authzStatus, authzIdent, authzOrder, authzExpires, now,
                   chalVars, certVars, eabVars, blockVars>>

Collab_SetAuthzStatus(z, status) ==
    /\ authzWriter[z] = "held"
    /\ authzStatus' = [authzStatus EXCEPT ![z] = status]
    /\ authzWriter' = [authzWriter EXCEPT ![z] = "none"]
    /\ UNCHANGED <<threadVars, lockVars, acctVars, orderVars, authzID, authzReaders, authorizationsByID,
                   authzIdent, authzOrder, authzExpires, now, chalVars, certVars, eabVars, blockVars>>

\* time.Now() moves on.
Tick ==
    /\ now < MaxTime
    /\ now' = now + 1
    /\ UNCHANGED <<threadVars, lockVars, acctVars, orderVars, authzID, authzReaders, authorizationsByID,
                   authzWriter, authzStatus, authzIdent, authzOrder, authzExpires,
                   chalVars, certVars, eabVars, blockVars>>

\* Lines 322-324: the test FindValidAuthorization makes of one authorization.
IsValidFor_AnyAccount(z, accountID, identifier) ==
    /\ authzStatus[z] = "valid"
    /\ identifier = authzIdent[z]
    /\ authzOrder[z] # NilPtr
    /\ authzExpires[z] > now
IsValidFor(z, accountID, identifier) ==
    /\ authzStatus[z] = "valid"
    /\ identifier = authzIdent[z]
    /\ authzOrder[z] # NilPtr
    /\ ordAcct[authzOrder[z]] = accountID
    /\ authzExpires[z] > now

\* Lines 314-317.  The range loop visits every key of the map, in an order Go
\* does not fix; left holds the keys not visited yet, seen the Status read of
\* each authorization visited.
FindValidAuthorization_RLock(t, accountID, identifier) ==
    /\ BeginRLocked(t, "FindValidAuthorization",
                    [op |-> "FindValidAuthorization", accountID |-> accountID,
                     identifier |-> identifier, left |-> DOMAIN authorizationsByID,
                     seen |-> EmptyMap])
    /\ UNCHANGED <<acctVars, orderVars, authzVars, chalVars, certVars, eabVars, blockVars>>

\* Lines 317 and 330: the range loop yields a key not visited yet, whatever
\* the locks are, or the call returns nil after the last.
FindValidAuthorization_Next(t) ==
    /\ pc[t] = "FindValidAuthorization"
    /\ IF arg[t].left = {}
       THEN Return(t, "FindValidAuthorization", "", NilPtr) /\ UNCHANGED arg
       ELSE \E k \in arg[t].left :
              /\ arg' = [arg EXCEPT ![t] =
                    [op |-> "FindValidAuthorization", accountID |-> arg[t].accountID,
                     identifier |-> arg[t].identifier, left |-> arg[t].left,
                     seen |-> arg[t].seen, key |-> k]]
              /\ Goto(t, "FindValidAuthorization_rlock")
              /\ UNCHANGED ret
    /\ UNCHANGED <<lockVars, acctVars, orderVars, authzVars, chalVars, certVars, eabVars, blockVars>>

\* Line 321: authz.RLock() of the authorization the loop is at, waited for
\* with m.RLock() held.
FindValidAuthorization_AuthzRLock(t) ==
    /\ pc[t] = "FindValidAuthorization_rlock"
    /\ CanRLockAuthz(authorizationsByID[arg[t].key])
    /\ authzReaders' = [authzReaders EXCEPT ![authorizationsByID[arg[t].key]] = @ + 1]
    /\ Goto(t, "FindValidAuthorization_read")
    /\ UNCHANGED <<arg, ret, lockVars, acctVars, orderVars, authzID, authorizationsByID, authzFields,
                   chalVars, certVars, eabVars, blockVars>>

\* Lines 322-328: the test of the authorization, authz.RUnlock() on either
\* path, and the return of a match.
FindValidAuthorization_Examine(t) ==
    /\ pc[t] = "FindValidAuthorization_read"
    /\ LET k == arg[t].key
           z == authorizationsByID[k]
       IN  /\ authzReaders' = [authzReaders EXCEPT ![z] = @ - 1]
           /\ IF IsValidFor(z, arg[t].accountID, arg[t].identifier)
              THEN Return(t, "FindValidAuthorization", "", z) /\ UNCHANGED arg
              ELSE /\ arg' = [arg EXCEPT ![t].left = @ \ {k},
                                         ![t].seen = MapPut(@, k, authzStatus[z])]
                   /\ Goto(t, "FindValidAuthorization")
                   /\ UNCHANGED ret
    /\ UNCHANGED <<lockVars, acctVars, orderVars, authzID, authorizationsByID, authzFields,
                   chalVars, certVars, eabVars, blockVars>>

\* One goroutine scans while the others add.
Scanners == {1}

NextFind ==
    \/ \E z \in Authzs, id \in FullAuthzIDs, d \in Idents, o \in Orders \cup {NilPtr},
          x \in 1..MaxTime : NewAuthorizationFor(z, id, d, o, x)
    \/ \E z \in Authzs : Collab_LockAuthz(z)
    \/ \E z \in Authzs : Collab_AcquireAuthz(z)
    \/ \E z \in Authzs, st \in {"pending", "valid"} : Collab_SetAuthzStatus(z, st)
    \/ Tick
    \/ \E t \in Scanners, a \in OrderAccts, d \in Idents : FindValidAuthorization_RLock(t, a, d)
    \/ \E t \in Threads :
        \/ \E z \in Authzs : AddAuthorization_Lock(t, z)
        \/ AddAuthorization_RLock(t)
        \/ AddAuthorization_Read(t)
        \/ AddAuthorization_Insert(t)
        \/ FindValidAuthorization_Next(t)
        \/ FindValidAuthorization_AuthzRLock(t)
        \/ FindValidAuthorization_Examine(t)
        \/ DeferredUnlock(t)

InitFind == InitStore /\ NoAccts /\ OrdersExist /\ NoCerts
SpecFind == InitFind /\ [][NextFind]_vars

\* ------------------------------ authorizations that collaborators lock
\* A step of a call that is under way, or of a collaborator that has asked for
\* a lock: what can still happen when no new call is made.
StepInside ==
    \/ \E t \in Threads :
          \/ AddAuthorization_RLock(t) \/ AddAuthorization_Read(t) \/ AddAuthorization_Insert(t)
          \/ FindValidAuthorization_Next(t) \/ FindValidAuthorization_AuthzRLock(t)
          \/ FindValidAuthorization_Examine(t)
          \/ DeferredUnlock(t)
    \/ \E z \in Authzs : Collab_AcquireAuthz(z)
    \/ \E z \in Authzs, st \in {"pending", "valid"} : Collab_SetAuthzStatus(z, st)

NextWait ==
    \/ \E z \in Authzs, id \in AuthzIDs \cup FullAuthzIDs : NewAuthorization(z, id)
    \/ \E z \in Authzs : Collab_LockAuthz(z)
    \/ \E z \in Authzs : Collab_AcquireAuthz(z)
    \/ \E z \in Authzs, st \in {"pending", "valid"} : Collab_SetAuthzStatus(z, st)
    \/ \E t \in Threads :
        \/ \E z \in Authzs : AddAuthorization_Lock(t, z)
        \/ AddAuthorization_RLock(t)
        \/ AddAuthorization_Read(t)
        \/ AddAuthorization_Insert(t)
        \/ \E a \in OrderAccts, d \in Idents : FindValidAuthorization_RLock(t, a, d)
        \/ FindValidAuthorization_Next(t)
        \/ FindValidAuthorization_AuthzRLock(t)
        \/ FindValidAuthorization_Examine(t)
        \/ DeferredUnlock(t)

InitWait == InitStore /\ NoAccts /\ NoOrders /\ NoCerts
SpecWait == InitWait /\ [][NextWait]_vars

\* --------------------------------------------------------- certificates
CertIDs == {"", "x1", "x2"}

NewCertificate(c, id) ==
    /\ certID[c] = NoObj
    /\ certID' = [certID EXCEPT ![c] = id]
    /\ UNCHANGED <<threadVars, lockVars, acctVars, orderVars, authzVars, chalVars,
                   certificatesByID, revokedCertificatesByID, eabVars, blockVars>>

AddCertificate_Lock(t, c) ==
    /\ certID[c] # NoObj
    /\ BeginLocked(t, "AddCertificate", [op |-> "AddCertificate", cert |-> c])
    /\ UNCHANGED <<acctVars, orderVars, authzVars, chalVars, certVars, eabVars, blockVars>>

\* Lines 367 and 370: the error for an ID that is taken, "" for a free one.
CertTaken_LiveOnly(live, revoked, id) ==
    IF Present(live, id) THEN "already exists" ELSE ""
CertTaken(live, revoked, id) ==
    IF Present(live, id) THEN "already exists"
    ELSE IF Present(revoked, id) THEN "already exists (and is revoked)"
    ELSE ""

\* Lines 362-375.
AddCertificate_Body(t) ==
    /\ pc[t] = "AddCertificate"
    /\ LET c == arg[t].cert
           taken == CertTaken(certificatesByID, revokedCertificatesByID, certID[c])
       IN  IF certID[c] = ""
           THEN Return(t, "AddCertificate", "empty ID", 0) /\ UNCHANGED certificatesByID
           ELSE IF taken # ""
           THEN Return(t, "AddCertificate", taken, 0) /\ UNCHANGED certificatesByID
           ELSE /\ certificatesByID' = MapPut(certificatesByID, certID[c], c)
                /\ Return(t, "AddCertificate", "", MapLen(certificatesByID'))
    /\ UNCHANGED <<arg, lockVars, acctVars, orderVars, authzVars, chalVars, certID,
                   revokedCertificatesByID, eabVars, blockVars>>

GetCertificateByID_RLock(t, id) ==
    /\ BeginRLocked(t, "GetCertificateByID", [op |-> "GetCertificateByID", id |-> id])
    /\ UNCHANGED <<acctVars, orderVars, authzVars, chalVars, certVars, eabVars, blockVars>>

GetCertificateByID_Read(t) ==
    /\ pc[t] = "GetCertificateByID"
    /\ Return(t, "GetCertificateByID", "", MapGet(certificatesByID, arg[t].id))
    /\ UNCHANGED <<arg, lockVars, acctVars, orderVars, authzVars, chalVars, certVars, eabVars, blockVars>>

\* The caller wraps certificate c in a core.RevokedCertificate.
RevokeCertificate_Lock(t, c) ==
    /\ certID[c] # NoObj
    /\ BeginLocked(t, "RevokeCertificate", [op |-> "RevokeCertificate", cert |-> [Certificate |-> c]])
    /\ UNCHANGED <<acctVars, orderVars, authzVars, chalVars, certVars, eabVars, blockVars>>

\* Line 415.
RevokeCertificate_Body(t) ==
    /\ pc[t] = "RevokeCertificate"
    /\ revokedCertificatesByID' =
          MapPut(revokedCertificatesByID, certID[arg[t].cert.Certificate], arg[t].cert)
    /\ Return(t, "RevokeCertificate", "", 0)
    /\ UNCHANGED <<arg, lockVars, acctVars, orderVars, authzVars, chalVars, certID,
                   certificatesByID, eabVars, blockVars>>

NextCert ==
    \/ \E c \in Certs, id \in CertIDs : NewCertificate(c, id)
    \/ \E t \in Threads :
        \/ \E c \in Certs : AddCertificate_Lock(t, c)
        \/ AddCertificate_Body(t)
        \/ \E id \in CertIDs : GetCertificateByID_RLock(t, id)
        \/ GetCertificateByID_Read(t)
        \/ \E c \in Certs : RevokeCertificate_Lock(t, c)
        \/ RevokeCertificate_Body(t)
        \/ DeferredUnlock(t)

InitCert == InitStore /\ NoAccts /\ NoOrders /\ NoCerts
SpecCert == InitCert /\ [][NextCert]_vars

\* ------------------------------------------------- external account keys
\* base64.RawURLEncoding.DecodeString on a text given as its characters.  Each
\* character of the alphabet stands for six bits; "=" is the padding
\* character, which the raw encoding does not accept.
B64Chars == {"A", "R", "="}
B64Value(c) == CASE c = "A" -> 0 [] c = "R" -> 17 [] OTHER -> -1

\* The bytes of one quantum of 2, 3 or 4 characters; the bits left over after
\* the last whole byte are dropped, whatever they are.
B64Quantum(q) ==
    LET v(i) == B64Value(q[i])
    IN  IF Len(q) = 2 THEN <<v(1) * 4 + v(2) \div 16>>
        ELSE IF Len(q) = 3
        THEN <<v(1) * 4 + v(2) \div 16, (v(2) % 16) * 16 + v(3) \div 4>>
        ELSE <<v(1) * 4 + v(2) \div 16, (v(2) % 16) * 16 + v(3) \div 4, (v(3) % 4) * 64 + v(4)>>

RECURSIVE B64Bytes(_)
B64Bytes(text) ==
    IF Len(text) = 0 THEN <<>>
    ELSE IF Len(text) <= 4 THEN B64Quantum(text)
    ELSE B64Quantum(SubSeq(text, 1, 4)) \o B64Bytes(SubSeq(text, 5, Len(text)))

B64Decode(text) ==
    IF (\E i \in 1..Len(text) : B64Value(text[i]) < 0) \/ Len(text) % 4 = 1
    THEN [err |-> TRUE, bytes |-> <<>>]
    ELSE [err |-> FALSE, bytes |-> B64Bytes(text)]

RECURSIVE SeqsUpTo(_, _)
SeqsUpTo(S, n) ==
    IF n = 0 THEN {<<>>}
    ELSE LET shorter == SeqsUpTo(S, n - 1)
         IN  shorter \cup {Append(q, x) : q \in shorter, x \in S}

KeyTexts == SeqsUpTo(B64Chars, MaxKeyLen)
KeyIDs == {"", "kid1", "kid2"}

\* Lines 475-482: the call returns before it locks.
AddExternalAccountKeyByID_Reject(t, keyID, key) ==
    /\ Idle(t)
    /\ \/ /\ (Len(key) = 0 \/ keyID = "")
          /\ Return(t, "AddExternalAccountKeyByID", "empty", 0)
       \/ /\ ~(Len(key) = 0 \/ keyID = "")
          /\ B64Decode(key).err
          /\ Return(t, "AddExternalAccountKeyByID", "decode", 0)
    /\ arg' = [arg EXCEPT ![t] = [op |-> "AddExternalAccountKeyByID"]]
    /\ UNCHANGED <<lockVars, acctVars, orderVars, authzVars, chalVars, certVars, eabVars, blockVars>>

\* Lines 475-485, the arguments accepted.
AddExternalAccountKeyByID_Lock(t, keyID, key) ==
    /\ ~(Len(key) = 0 \/ keyID = "")
    /\ ~B64Decode(key).err
    /\ BeginLocked(t, "AddExternalAccountKeyByID",
                   [op |-> "AddExternalAccountKeyByID", keyID |-> keyID, key |-> key,
                    keyDecoded |-> B64Decode(key).bytes])
    /\ UNCHANGED <<acctVars, orderVars, authzVars, chalVars, certVars, eabVars, blockVars>>

\* Line 487: whether the key ID is taken.
KeyIDTaken_Never(byID, keyID) == FALSE
KeyIDTaken(byID, keyID) == Present(byID, keyID)

\* Lines 487-493.
AddExternalAccountKeyByID_Body(t) ==
    /\ pc[t] = "AddExternalAccountKeyByID"
    /\ IF KeyIDTaken(externalAccountKeysByID, arg[t].keyID)
       THEN /\ Return(t, "AddExternalAccountKeyByID", "already present", 0)
            /\ UNCHANGED externalAccountKeysByID
       ELSE /\ externalAccountKeysByID' =
                  MapPut(externalAccountKeysByID, arg[t].keyID, arg[t].keyDecoded)
            /\ Return(t, "AddExternalAccountKeyByID", "", 0)
    /\ UNCHANGED <<arg, lockVars, acctVars, orderVars, authzVars, chalVars, certVars, blockVars>>

GetExtenalAccountKeyByID_RLock(t, keyID) ==
    /\ BeginRLocked(t, "GetExtenalAccountKeyByID", [op |-> "GetExtenalAccountKeyByID", keyID |-> keyID])
    /\ UNCHANGED <<acctVars, orderVars, authzVars, chalVars, certVars, eabVars, blockVars>>

\* Lines 501-502: the key (nil when absent) and whether it is there.
GetExtenalAccountKeyByID_Read(t) ==
    /\ pc[t] = "GetExtenalAccountKeyByID"
    /\ Return(t, "GetExtenalAccountKeyByID", "",
              [key |-> IF Present(externalAccountKeysByID, arg[t].keyID)
                       THEN externalAccountKeysByID[arg[t].keyID] ELSE <<>>,
               ok |-> Present(externalAccountKeysByID, arg[t].keyID)])
    /\ UNCHANGED <<arg, lockVars, acctVars, orderVars, authzVars, chalVars, certVars, eabVars, blockVars>>

NextEAB ==
    \E t \in Threads :
        \/ \E id \in KeyIDs, k \in KeyTexts : AddExternalAccountKeyByID_Reject(t, id, k)
        \/ \E id \in KeyIDs, k \in KeyTexts : AddExternalAccountKeyByID_Lock(t, id, k)
        \/ AddExternalAccountKeyByID_Body(t)
        \/ \E id \in KeyIDs : GetExtenalAccountKeyByID_RLock(t, id)
        \/ GetExtenalAccountKeyByID_Read(t)
        \/ DeferredUnlock(t)

InitEAB == InitStore /\ NoAccts /\ NoOrders /\ NoCerts
SpecEAB == InitEAB /\ [][NextEAB]_vars

\* -------------------------------------------------------- the block list
\* A name is the sequence of its characters, a label likewise.
NameChars == {"a", "b", "."}
Names == SeqsUpTo(NameChars, MaxNameLen)

\* strings.Split(name, "."): the labels between the dots, empty ones included;
\* one empty label for the empty name.
RECURSIVE Split(_)
Split(name) ==
    IF \A i \in 1..Len(name) : name[i] # "."
    THEN <<name>>
    ELSE LET dot == CHOOSE i \in 1..Len(name) :
                       name[i] = "." /\ \A j \in 1..(i - 1) : name[j] # "."
         IN  <<SubSeq(name, 1, dot - 1)>> \o Split(SubSeq(name, dot + 1, Len(name)))

\* Lines 514-516 and 530-532: the loop that swaps the ends inwards.
Reverse(parts) == [i \in 1..Len(parts) |-> parts[Len(parts) + 1 - i]]

\* Line 539: domainParts[i], Go's index i being position i + 1 here.  An index
\* past the end of the slice panics.
InRange(domainParts, pos) == pos <= Len(domainParts)

\* Lines 537-543 for one entry, from position pos on: "match", "differ" or
\* "panic".
RECURSIVE MatchFrom(_, _, _)
MatchFrom(blockedParts, domainParts, pos) ==
    IF pos > Len(blockedParts) THEN "match"
    ELSE IF ~InRange(domainParts, pos) THEN "panic"
    ELSE IF blockedParts[pos] # domainParts[pos] THEN "differ"
    ELSE MatchFrom(blockedParts, domainParts, pos + 1)

\* Lines 536-549 from entry k on: "true", "false" or "panic".
RECURSIVE ScanFrom(_, _, _)
ScanFrom(blockList, domainParts, k) ==
    IF k > Len(blockList) THEN "false"
    ELSE LET m == MatchFrom(blockList[k], domainParts, 1)
         IN  IF m = "match" THEN "true"
             ELSE IF m = "panic" THEN "panic"
             ELSE ScanFrom(blockList, domainParts, k + 1)

\* Line 507.
AddBlockedDomain_Reject(t) ==
    /\ Idle(t)
    /\ Return(t, "AddBlockedDomain", "empty", 0)
    /\ arg' = [arg EXCEPT ![t] = [op |-> "AddBlockedDomain", name |-> <<>>]]
    /\ UNCHANGED <<lockVars, acctVars, orderVars, authzVars, chalVars, certVars, eabVars, blockVars>>

\* Lines 511-519.
AddBlockedDomain_Lock(t, name) ==
    /\ Len(name) # 0
    /\ Len(blockListByDomain) < MaxBlocked
    /\ BeginLocked(t, "AddBlockedDomain",
                   [op |-> "AddBlockedDomain", name |-> name, domainParts |-> Reverse(Split(name))])
    /\ UNCHANGED <<acctVars, orderVars, authzVars, chalVars, certVars, eabVars, blockVars>>

\* Lines 520-522.
AddBlockedDomain_Append(t) ==
    /\ pc[t] = "AddBlockedDomain"
    /\ blockListByDomain' = Append(blockListByDomain, arg[t].domainParts)
    /\ Return(t, "AddBlockedDomain", "", 0)
    /\ UNCHANGED <<arg, lockVars, acctVars, orderVars, authzVars, chalVars, certVars, eabVars>>

\* Lines 527-535.
IsDomainBlocked_RLock(t, name) ==
    /\ BeginRLocked(t, "IsDomainBlocked",
                    [op |-> "IsDomainBlocked", name |-> name, domainParts |-> Reverse(Split(name))])
    /\ UNCHANGED <<acctVars, orderVars, authzVars, chalVars, certVars, eabVars, blockVars>>

\* Lines 536-549.  A panic unwinds through the deferred m.RUnlock().
IsDomainBlocked_Scan(t) ==
    /\ pc[t] = "IsDomainBlocked"
    /\ LET r == ScanFrom(blockListByDomain, arg[t].domainParts, 1)
       IN  IF r = "panic"
           THEN Return(t, "IsDomainBlocked", "panic", FALSE)
           ELSE Return(t, "IsDomainBlocked", "", r = "true")
    /\ UNCHANGED <<arg, lockVars, acctVars, orderVars, authzVars, chalVars, certVars, eabVars, blockVars>>

\* The block list is exercised by one goroutine.
BlockThreads == {1}
NextBlock ==
    \E t \in BlockThreads :
        \/ AddBlockedDomain_Reject(t)
        \/ \E n \in Names : AddBlockedDomain_Lock(t, n)
        \/ AddBlockedDomain_Append(t)
        \/ \E n \in Names : IsDomainBlocked_RLock(t, n)
        \/ IsDomainBlocked_Scan(t)
        \/ DeferredUnlock(t)

InitBlock == InitStore /\ NoAccts /\ NoOrders /\ NoCerts
SpecBlock == InitBlock /\ [][NextBlock]_vars

\* ------------------------------------- N concurrent AddAccount calls alone
\* Every account has a key whose fingerprint computes, no two the same
\* fingerprint; each account is added by one call, and the calls wait for the
\* lock together.
DistinctKeys ==
    /\ \A a \in Accts : ~keyToID(acctKey[a]).err
    /\ \A a, b \in Accts : a # b => keyToID(acctKey[a]).id # keyToID(acctKey[b]).id

InFlight(a) == \E u \in Threads : arg[u].op = "AddAccount" /\ arg[u].acct = a

AddOnce(t, a) ==
    /\ acctID[a] = <<>>
    /\ ~InFlight(a)
    /\ AddAccount_Call(t, a)

NextAddOnly ==
    \E t \in Threads :
        \/ \E a \in Accts : AddOnce(t, a)
        \/ AddAccount_Acquire(t)
        \/ AddAccount_Check(t)
        \/ AddAccount_InsertByID(t)
        \/ AddAccount_InsertByKey(t)
        \/ DeferredUnlock(t)

InitAddOnly == InitStore /\ InitAccts /\ DistinctKeys /\ NoOrders /\ NoCerts
SpecAddOnly == InitAddOnly /\ [][NextAddOnly]_vars

\* ------------------------------------------------------------ C1 .. C4
Quiescent == \A t \in Threads : Idle(t)
Stored(a) ==
    /\ Present(accountsByID, acctID[a]) /\ accountsByID[acctID[a]] = a
    /\ ~keyToID(acctKey[a]).err
    /\ Present(accountsByKeyID, keyToID(acctKey[a]).id)
    /\ accountsByKeyID[keyToID(acctKey[a]).id] = a

\* C1: an AddAccount whose key has the fingerprint of a key already in the
\* fingerprint map returns the conflict error, and no step of the failing call
\* changes accountsByID, accountsByKeyID or a field of an account, so the
\* first account is still what both lookups return.
C1_CollidingAddFails ==
    [][\A t \in Threads :
        /\ ( /\ pc[t] = "AddAccount" /\ pc'[t] # "AddAccount"
             /\ ~keyToID(acctKey[arg[t].acct]).err
             /\ Present(accountsByKeyID, keyToID(acctKey[arg[t].acct]).id) )
           => /\ pc'[t] = "return"
              /\ ret'[t].err = "key exists"
              /\ UNCHANGED acctVars
        /\ (pc[t] = "return" /\ ret[t].op = "AddAccount" /\ ret[t].err # "")
           => UNCHANGED acctVars
      ]_vars

\* A second account object, with another key value of the same fingerprint,
\* was refused while the first is stored.
C1_Witness ==
    \E t \in Threads :
        /\ pc[t] = "return" /\ ret[t].op = "AddAccount" /\ ret[t].err = "key exists"
        /\ LET first == accountsByKeyID[keyToID(acctKey[arg[t].acct]).id]
           IN  /\ first # arg[t].acct
               /\ acctKey[first] # acctKey[arg[t].acct]
               /\ Stored(first)

\* C2: N AddAccount calls for N accounts of pairwise distinct fingerprints,
\* waiting for the lock together: none returns an error, no two accounts get
\* the same ID, and once all have returned both maps hold exactly the accounts
\* added.
Added == {a \in Accts : acctID[a] # <<>>}
C2_ConcurrentAdds ==
    /\ \A t \in Threads : pc[t] = "return" => ret[t].err = ""
    /\ \A a, b \in Added : a # b => acctID[a] # acctID[b]
    /\ Quiescent =>
          /\ Range(accountsByID) = Added
          /\ Range(accountsByKeyID) = Added
          /\ MapLen(accountsByID) = Cardinality(Added)
          /\ MapLen(accountsByKeyID) = Cardinality(Added)
          /\ \A a \in Added : Stored(a)

\* Every account was added and every call has returned.
C2_Witness ==
    /\ Quiescent
    /\ Added = Accts
    /\ MapLen(accountsByID) = NumAccts

\* C3: with A and B stored under different fingerprints, ChangeAccountKey(A, Kb)
\* returns ExistingAccountError{B} and changes no map and no field of an account.
C3_KeyChangeConflict ==
    [][\A t \in Threads : \A B \in Accts :
        ( /\ pc[t] = "ChangeAccountKey" /\ pc'[t] # "ChangeAccountKey"
          /\ B # arg[t].acct
          /\ Stored(arg[t].acct) /\ Stored(B)
          /\ ~keyToID(arg[t].newKey).err
          /\ keyToID(arg[t].newKey).id = keyToID(acctKey[B]).id
          /\ keyToID(acctKey[arg[t].acct]).id # keyToID(acctKey[B]).id )
        => /\ pc'[t] = "return"
           /\ ret'[t].err = "ExistingAccountError"
           /\ ret'[t].val = B
           /\ UNCHANGED acctVars
      ]_vars

C3_Witness ==
    \E t \in Threads :
        /\ pc[t] = "return" /\ ret[t].op = "ChangeAccountKey"
        /\ ret[t].err = "ExistingAccountError"
        /\ ret[t].val # arg[t].acct
        /\ Stored(arg[t].acct) /\ Stored(ret[t].val)

\* The step of ChangeAccountKey that decides, both fingerprints computed.
ChangeKeyDecides(t) ==
    /\ pc[t] = "ChangeAccountKey" /\ pc'[t] # "ChangeAccountKey"
    /\ ~keyToID(acctKey[arg[t].acct]).err
    /\ ~keyToID(arg[t].newKey).err

\* C4 as claimed: ChangeAccountKey(A, newKey) reports the key conflict only
\* when the fingerprint of newKey is mapped to an account other than A, and
\* goes on to succeed when it is unmapped or mapped to A itself.
C4_ConflictOnlyWithOther ==
    [][\A t \in Threads :
        ChangeKeyDecides(t) =>
            LET id == keyToID(arg[t].newKey).id
            IN  IF Present(accountsByKeyID, id) /\ accountsByKeyID[id] # arg[t].acct
                THEN ret'[t].err = "ExistingAccountError"
                ELSE pc'[t] = "ChangeAccountKey_delete"
      ]_vars

\* C4 as amended: ChangeAccountKey(A, newKey) reports the key conflict exactly
\* when the fingerprint of newKey is mapped to any account, A included, the
\* error carrying the mapped account and nothing changing; when the
\* fingerprint is unmapped the call goes on and returns no error.
C4_ConflictIffMapped ==
    [][\A t \in Threads :
        /\ ChangeKeyDecides(t) =>
              LET id == keyToID(arg[t].newKey).id
              IN  IF Present(accountsByKeyID, id)
                  THEN /\ pc'[t] = "return"
                       /\ ret'[t].err = "ExistingAccountError"
                       /\ ret'[t].val = accountsByKeyID[id]
                       /\ UNCHANGED acctVars
                  ELSE pc'[t] = "ChangeAccountKey_delete" /\ ret'[t] = NoRet
        /\ (pc[t] = "ChangeAccountKey_republish" /\ pc'[t] # pc[t])
              => pc'[t] = "return" /\ ret'[t].err = ""
      ]_vars

\* ChangeAccountKey(A, A's own key) with A stored: the conflict names A.
C4_Witness ==
    \E t \in Threads :
        /\ pc[t] = "return" /\ ret[t].op = "ChangeAccountKey"
        /\ ret[t].err = "ExistingAccountError"
        /\ ret[t].val = arg[t].acct
        /\ Stored(arg[t].acct)
        /\ keyToID(arg[t].newKey).id = keyToID(acctKey[arg[t].acct]).id

\* ------------------------------------------------------------ C5, C6
\* The orders of every per-account list, one after the other.
RECURSIVE Flatten(_, _)
Flatten(m, ks) ==
    IF ks = {} THEN <<>>
    ELSE LET k == CHOOSE x \in ks : TRUE IN m[k] \o Flatten(m, ks \ {k})
Listed == Flatten(ordersByAccountID, DOMAIN ordersByAccountID)
InList(o, acct) ==
    Present(ordersByAccountID, acct)
    /\ \E i \in 1..Len(ordersByAccountID[acct]) : ordersByAccountID[acct][i] = o
InByID(o) == Present(ordersByID, ordID[o]) /\ ordersByID[ordID[o]] = o

\* C5: when AddOrder(o) returns without error, ordersByID[o.ID] is o and o is
\* in the list of its account; GetOrderByID and GetOrdersByAccountID return
\* what the maps hold; and whenever a goroutine holds the store lock shared, or
\* nobody holds it, an order is in ordersByID exactly if it is in the list of
\* its account.
C5_OrderAddAtomic ==
    /\ \A t \in Threads :
          (pc[t] = "return" /\ ret[t].op = "AddOrder" /\ ret[t].err = "")
          => InByID(arg[t].order) /\ InList(arg[t].order, ordAcct[arg[t].order])
    /\ \A t \in Threads :
          (pc[t] = "return" /\ ret[t].op = "GetOrderByID" /\ ret[t].err = "")
          => ret[t].val = MapGet(ordersByID, arg[t].id)
    /\ \A t \in Threads :
          (pc[t] = "return" /\ ret[t].op = "GetOrdersByAccountID" /\ ret[t].err = ""
           /\ Present(ordersByAccountID, arg[t].accountID))
          => ret[t].val = ordersByAccountID[arg[t].accountID]
    /\ (mReaders # {} \/ mWriter = NilPtr)
          => \A o \in Orders : InByID(o) <=> InList(o, ordAcct[o])

\* Two readers hold the shared lock at once, one returning o by its ID and the
\* other the list of o's account with o in it.
C5_Witness ==
    \E t, u \in Threads : \E o \in Orders :
        /\ t # u
        /\ pc[t] = "return" /\ ret[t].op = "GetOrderByID" /\ ret[t].err = "" /\ ret[t].val = o
        /\ pc[u] = "GetOrdersByAccountID_status"
        /\ arg[u].accountID = ordAcct[o]
        /\ \E i \in 1..Len(arg[u].orders) : arg[u].orders[i] = o

\* C6: an AddOrder, AddAuthorization or AddChallenge whose ID is empty or
\* already in its index returns an error, and no step of the failing call
\* changes an index; and no ID is in the per-account lists twice.
Indices == <<ordersByID, ordersByAccountID, authorizationsByID, challengesByID>>
NoDuplicateOrder ==
    \A i, j \in 1..Len(Listed) : i # j => ordID[Listed[i]] # ordID[Listed[j]]
C6_DuplicateAddFails ==
    [][/\ \A t \in Threads :
            /\ ( /\ pc[t] = "AddOrder_read" /\ pc'[t] # pc[t]
                 /\ (ordID[arg[t].order] = "" \/ Present(ordersByID, ordID[arg[t].order])) )
               => pc'[t] = "return" /\ ret'[t].err # "" /\ UNCHANGED Indices
            /\ ( /\ pc[t] = "AddAuthorization_read" /\ pc'[t] # pc[t]
                 /\ authzID[arg[t].authz] = "" )
               => pc'[t] = "return" /\ ret'[t].err # "" /\ UNCHANGED Indices
            /\ ( /\ pc[t] = "AddAuthorization_insert" /\ pc'[t] # pc[t]
                 /\ Present(authorizationsByID, authzID[arg[t].authz]) )
               => pc'[t] = "return" /\ ret'[t].err # "" /\ UNCHANGED Indices
            /\ ( /\ pc[t] = "AddChallenge_insert" /\ pc'[t] # pc[t]
                 /\ (chalID[arg[t].chal] = "" \/ Present(challengesByID, chalID[arg[t].chal])) )
               => pc'[t] = "return" /\ ret'[t].err # "" /\ UNCHANGED Indices
            /\ pc[t] \in {"AddOrder", "AddAuthorization", "AddChallenge", "AddChallenge_read"}
               => UNCHANGED Indices
            /\ (pc[t] = "return" /\ ret[t].err # "") => UNCHANGED Indices
       /\ NoDuplicateOrder'
      ]_vars

\* A second order object with the ID of a stored one was refused, an
\* authorization and a challenge are stored, and an authorization of empty ID
\* was refused (its read lock is still held).
C6_Witness ==
    /\ \E t \in Threads :
          /\ pc[t] = "return" /\ ret[t].op = "AddOrder" /\ ret[t].err = "already exists"
          /\ ordersByID[ordID[arg[t].order]] # arg[t].order
    /\ authorizationsByID # EmptyMap
    /\ challengesByID # EmptyMap
    /\ \E z \in Authzs : authzReaders[z] > 0

\* ------------------------------------------------------------ C7, C8
\* C7 as claimed: AddCertificate of an ID that is a key of certificatesByID
\* or of revokedCertificatesByID returns a conflict error and changes neither
\* map.
C7_AlwaysConflict ==
    [][\A t \in Threads :
        ( /\ pc[t] = "AddCertificate" /\ pc'[t] # pc[t]
          /\ \/ Present(certificatesByID, certID[arg[t].cert])
             \/ Present(revokedCertificatesByID, certID[arg[t].cert]) )
        => /\ pc'[t] = "return"
           /\ ret'[t].err \in {"already exists", "already exists (and is revoked)"}
           /\ UNCHANGED <<certificatesByID, revokedCertificatesByID>>
      ]_vars

\* C7 as amended: AddCertificate of an ID that is a key of certificatesByID or
\* of revokedCertificatesByID returns an error and changes neither map, in no
\* step of the failing call; the error is a conflict error when the ID is not
\* empty and the empty-ID error when it is.
C7_AddCertificateConflict ==
    [][\A t \in Threads :
        /\ ( /\ pc[t] = "AddCertificate" /\ pc'[t] # pc[t]
             /\ \/ Present(certificatesByID, certID[arg[t].cert])
                \/ Present(revokedCertificatesByID, certID[arg[t].cert]) )
           => /\ pc'[t] = "return"
              /\ IF certID[arg[t].cert] = ""
                 THEN ret'[t].err = "empty ID"
                 ELSE ret'[t].err = (IF Present(certificatesByID, certID[arg[t].cert])
                                     THEN "already exists"
                                     ELSE "already exists (and is revoked)")
              /\ UNCHANGED <<certificatesByID, revokedCertificatesByID>>
        /\ (pc[t] = "return" /\ ret[t].op = "AddCertificate" /\ ret[t].err # "")
           => UNCHANGED <<certificatesByID, revokedCertificatesByID>>
      ]_vars

\* A live certificate was refused because its ID is in the revoked index only.
C7_Witness ==
    \E t \in Threads :
        /\ pc[t] = "return" /\ ret[t].op = "AddCertificate"
        /\ ret[t].err = "already exists (and is revoked)"
        /\ Present(revokedCertificatesByID, certID[arg[t].cert])
        /\ ~Present(certificatesByID, certID[arg[t].cert])

\* C8: no ID is a key of certificatesByID and of revokedCertificatesByID at once.
C8_SharedNamespace ==
    DOMAIN certificatesByID \cap DOMAIN revokedCertificatesByID = {}

\* ---------------------------------------------------------------- C9
\* C9: a key ID once in externalAccountKeysByID stays, with the bytes it has;
\* an AddExternalAccountKeyByID that finds its key ID there returns an error,
\* one that does not stores the decoded bytes of its key; and
\* GetExtenalAccountKeyByID returns the stored bytes.
C9_WriteOnce ==
    [][/\ \A id \in DOMAIN externalAccountKeysByID :
            /\ id \in DOMAIN externalAccountKeysByID'
            /\ externalAccountKeysByID'[id] = externalAccountKeysByID[id]
       /\ \A t \in Threads :
            /\ (Idle(t) /\ pc'[t] = "return" /\ arg'[t].op = "AddExternalAccountKeyByID")
               => ret'[t].err # ""
            /\ (pc[t] = "AddExternalAccountKeyByID" /\ pc'[t] # pc[t])
               => IF Present(externalAccountKeysByID, arg[t].keyID)
                  THEN ret'[t].err = "already present"
                  ELSE /\ ret'[t].err = ""
                       /\ externalAccountKeysByID'[arg[t].keyID] = B64Decode(arg[t].key).bytes
                       /\ ~B64Decode(arg[t].key).err
            /\ (pc[t] = "GetExtenalAccountKeyByID" /\ pc'[t] # pc[t]
                /\ Present(externalAccountKeysByID, arg[t].keyID))
               => ret'[t].val = [key |-> externalAccountKeysByID[arg[t].keyID], ok |-> TRUE]
      ]_vars

\* A second Add for a stored key ID, with a key of other bytes, was refused
\* while a reader gets the first bytes, which are not the text of the key.
C9_Witness ==
    \E t, u \in Threads :
        /\ pc[t] = "return" /\ ret[t].op = "AddExternalAccountKeyByID"
        /\ ret[t].err = "already present"
        /\ externalAccountKeysByID[arg[t].keyID] # B64Decode(arg[t].key).bytes
        /\ Len(externalAccountKeysByID[arg[t].keyID]) = 2

\* --------------------------------------------------------------- C10
IsPrefix(p, q) == Len(p) <= Len(q) /\ \A i \in 1..Len(p) : p[i] = q[i]

\* C10: IsDomainBlocked(name) returns, and returns true exactly if the
\* reversed labels of some entry are a prefix of the reversed labels of name.
C10_BlockedIffSuffix ==
    \A t \in Threads :
        (pc[t] = "return" /\ ret[t].op = "IsDomainBlocked")
        => /\ ret[t].err = ""
           /\ ret[t].val <=> \E k \in 1..Len(blockListByDomain) :
                                IsPrefix(blockListByDomain[k], Reverse(Split(arg[t].name)))
\* --------------------------------------------------------------- C11
\* C11: after any sequence of AddAccount, UpdateAccountByID and
\* ChangeAccountKey calls, whenever no call holds the store lock exclusively,
\* accountsByID and accountsByKeyID have the same accounts for values, and
\* every fingerprint that is a key of accountsByKeyID is the fingerprint of
\* the key that some account of accountsByID holds.
C11_SameAccounts ==
    mWriter = NilPtr =>
        /\ Range(accountsByID) = Range(accountsByKeyID)
        /\ \A k \in DOMAIN accountsByKeyID :
              \E a \in Range(accountsByID) :
                  ~keyToID(acctKey[a]).err /\ keyToID(acctKey[a]).id = k

\* --------------------------------------------------------------- C12
\* C12: GetOrderByID, for the order it finds, and GetOrdersByAccountID, for
\* every order of the list it finds, call the status function and, holding
\* order.Lock(), write its result to Status before they return the order; a
\* status function that fails makes the call panic and return no order; a
\* lookup that finds nothing writes no Status.
C12_StatusRecomputed ==
    [][\A t \in Threads :
        /\ (pc[t] = "GetOrderByID" /\ pc'[t] # pc[t])
           => IF Present(ordersByID, arg[t].id)
              THEN pc'[t] = "GetOrderByID_status" /\ arg'[t].order = ordersByID[arg[t].id]
              ELSE /\ pc'[t] = "return" /\ ret'[t].val = NilPtr /\ ret'[t].err = ""
                   /\ UNCHANGED ordStatus
        /\ (pc[t] = "GetOrderByID_status" /\ pc'[t] # pc[t])
           => IF GetStatus(arg[t].order) = ""
              THEN /\ pc'[t] = "return" /\ ret'[t].err = "panic" /\ ret'[t].val = NilPtr
                   /\ UNCHANGED ordStatus
              ELSE /\ pc'[t] = "GetOrderByID_write"
                   /\ arg'[t].orderStatus = GetStatus(arg[t].order)
        /\ (pc[t] = "GetOrderByID_write" /\ pc'[t] # pc[t])
           => /\ pc'[t] = "return" /\ ret'[t].err = "" /\ ret'[t].val = arg[t].order
              /\ ordWriter'[arg[t].order] = t
              /\ ordStatus'[arg[t].order] = arg[t].orderStatus
        /\ (pc[t] = "GetOrdersByAccountID" /\ pc'[t] # pc[t])
           => IF Present(ordersByAccountID, arg[t].accountID)
                 /\ ordersByAccountID[arg[t].accountID] # <<>>
              THEN /\ pc'[t] = "GetOrdersByAccountID_status"
                   /\ arg'[t].orders = ordersByAccountID[arg[t].accountID]
                   /\ arg'[t].i = 1
              ELSE pc'[t] = "return" /\ ret'[t].val = <<>> /\ UNCHANGED ordStatus
        /\ (pc[t] = "GetOrdersByAccountID_status" /\ pc'[t] # pc[t])
           => IF GetStatus(arg[t].orders[arg[t].i]) = ""
              THEN /\ pc'[t] = "return" /\ ret'[t].err = "panic" /\ ret'[t].val = <<>>
                   /\ UNCHANGED ordStatus
              ELSE /\ pc'[t] = "GetOrdersByAccountID_write"
                   /\ arg'[t].orderStatus = GetStatus(arg[t].orders[arg[t].i])
        /\ (pc[t] = "GetOrdersByAccountID_write" /\ pc'[t] # pc[t])
           => /\ ordWriter'[arg[t].orders[arg[t].i]] = t
              /\ ordStatus'[arg[t].orders[arg[t].i]] = arg[t].orderStatus
              /\ IF arg[t].i < Len(arg[t].orders)
                 THEN pc'[t] = "GetOrdersByAccountID_status" /\ arg'[t].i = arg[t].i + 1
                 ELSE /\ pc'[t] = "return" /\ ret'[t].err = "" /\ ret'[t].val = arg[t].orders
                      /\ \A j \in 1..Len(arg[t].orders) : ordWriter'[arg[t].orders[j]] = t
       ]_vars

\* A list of two orders was returned, both with the status computed for them
\* and both locked by the reader, while another read has panicked.
C12_Witness ==
    \E t, u \in Threads :
        /\ pc[t] = "return" /\ ret[t].op = "GetOrdersByAccountID" /\ ret[t].err = ""
        /\ Len(ret[t].val) = 2
        /\ \A j \in 1..2 : ordWriter[ret[t].val[j]] = t /\ ordStatus[ret[t].val[j]] = "valid"
        /\ pc[u] = "return" /\ ret[u].err = "panic"

\* --------------------------------------------------------------- C16
\* C16: the authorization FindValidAuthorization(accountID, identifier)
\* returns is stored and, as the call reads it holding its read lock with no
\* writer holding the lock, has Status valid, the identifier asked for, an order of the account
\* asked for and an expiry after the present time; and when the call returns
\* nil it has visited every stored authorization, and none whose Status is
\* still what the call read passes that test.
C16_FindValid ==
    [][\A t \in Threads :
        (pc[t] \in {"FindValidAuthorization", "FindValidAuthorization_read"} /\ pc'[t] = "return")
        => IF ret'[t].val # NilPtr
           THEN LET z == ret'[t].val
                IN  /\ z \in Range(authorizationsByID)
                    /\ authzWriter[z] # "held"
                    /\ authzReaders[z] > 0
                    /\ authzStatus[z] = "valid"
                    /\ authzIdent[z] = arg[t].identifier
                    /\ authzOrder[z] # NilPtr
                    /\ ordAcct[authzOrder[z]] = arg[t].accountID
                    /\ now < authzExpires[z]
           ELSE \A k \in DOMAIN authorizationsByID :
                    LET z == authorizationsByID[k]
                    IN  /\ k \in DOMAIN arg[t].seen
                        /\ authzStatus[z] = arg[t].seen[k]
                           => ~( /\ authzStatus[z] = "valid"
                                 /\ authzIdent[z] = arg[t].identifier
                                 /\ authzOrder[z] # NilPtr
                                 /\ ordAcct[authzOrder[z]] = arg[t].accountID
                                 /\ now < authzExpires[z] )
      ]_vars

\* Of two stored authorizations, valid, unexpired and for the same
\* identifier, the call has passed over the one of the other account and
\* returns the one of the account asked for.
C16_Witness ==
    \E t \in Threads : \E k \in DOMAIN authorizationsByID :
        /\ pc[t] = "return" /\ ret[t].op = "FindValidAuthorization"
        /\ ret[t].val # NilPtr
        /\ authorizationsByID[k] # ret[t].val
        /\ k \in DOMAIN arg[t].seen
        /\ LET other == authorizationsByID[k]
           IN  /\ authzStatus[other] = "valid"
               /\ authzIdent[other] = arg[t].identifier
               /\ authzOrder[other] # NilPtr
               /\ ordAcct[authzOrder[other]] # arg[t].accountID
               /\ now < authzExpires[other]

\* --------------------------------------------------------------- C13
\* C13: no reachable state is a deadlock: whenever a call is under way, a
\* call that is under way can take its next step, or a collaborator that holds
\* or waits for a lock can.
C13_NoDeadlock == (\E t \in Threads : ~Idle(t)) => ENABLED StepInside

\* --------------------------------------------------------------- C20
\* C20: a goroutine that is in no call holds no lock: not the store's, not an
\* order's, and when no call is under way no authorization and no challenge
\* has a reader left.
C20_LocksReleased ==
    /\ \A t \in Threads : Idle(t) =>
          /\ mWriter # t /\ t \notin mReaders
          /\ \A o \in Orders : ordWriter[o] # t /\ t \notin ordReaders[o]
    /\ (\A t \in Threads : Idle(t)) =>
          /\ \A z \in Authzs : authzReaders[z] = 0
          /\ \A c \in Chals : chalReaders[c] = 0

\* --------------------------------------------------------------- C15
\* C15: IsDomainBlocked never reads a label past the end of the query's label
\* list: the call does not panic, and an entry with more labels than the
\* query never makes it return true.
C15_NoReadPastEnd ==
    \A t \in Threads :
        (pc[t] = "return" /\ ret[t].op = "IsDomainBlocked")
        => /\ ret[t].err # "panic"
           /\ (\A k \in 1..Len(blockListByDomain) :
                   Len(blockListByDomain[k]) > Len(arg[t].domainParts))
              => ret[t].val = FALSE

\* --------------------------------------------------------------- C14
\* C14: a call asks for the store lock only while it holds none:
\* UpdateReplacedOrder holds no store lock when it calls
\* GetOrderByIssuedSerial, and the lock that lookup took is released before
\* UpdateReplacedOrder asks for the order's lock.  (Every other request for
\* the store lock is the first step of a call.)
C14_SingleAcquisition ==
    \A t \in Threads :
        pc[t] \in {"idle", "UpdateReplacedOrder", "UpdateReplacedOrder_lock"}
        => mWriter # t /\ t \notin mReaders

\* UpdateReplacedOrder waits for the order's lock while another call holds
\* the store lock exclusively.
C14_Witness ==
    \E t \in Threads, u \in Threads :
        /\ pc[t] = "UpdateReplacedOrder_lock"
        /\ mWriter = u

\* --------------------------------------------------------------- C17
\* C17: UpdateReplacedOrder returns an error and changes nothing when the
\* serial is empty or not indexed; otherwise it sets IsReplaced of the order
\* the index holds for the serial to the flag given, holding that order's
\* lock, and changes no other field, order or index.
C17_UpdateReplaced ==
    [][\A t \in Threads :
        /\ (Idle(t) /\ pc'[t] = "return" /\ ret'[t].op = "UpdateReplacedOrder")
           => /\ arg'[t].serial = ""
              /\ ret'[t].err # ""
              /\ UNCHANGED <<lockVars, acctVars, orderVars, authzVars, chalVars, certVars,
                             eabVars, blockVars>>
        /\ (pc[t] = "GetOrderByIssuedSerial" /\ arg[t].op = "UpdateReplacedOrder"
                /\ pc'[t] # pc[t])
           => /\ UNCHANGED <<acctVars, orderVars, authzVars, chalVars, certVars, eabVars, blockVars>>
              /\ IF Present(ordersByIssuedSerial, arg[t].serial)
                 THEN /\ pc'[t] = "UpdateReplacedOrder_lock"
                      /\ arg'[t].originalOrder = ordersByIssuedSerial[arg[t].serial]
                 ELSE /\ pc'[t] = "return"
                      /\ ret'[t].err # ""
        /\ (pc[t] = "UpdateReplacedOrder_lock" /\ pc'[t] = "return")
           => /\ ret'[t].err = ""
              /\ ordWriter'[arg[t].originalOrder] = t
              /\ ordReplaced' = [ordReplaced EXCEPT ![arg[t].originalOrder] = arg[t].shouldBeReplaced]
              /\ UNCHANGED <<lockVars, acctVars, ordID, ordAcct, ordStatus, ordReaders, ordersByID,
                             ordersByAccountID, ordState, ordCert, ordersByIssuedSerial,
                             authzVars, chalVars, certVars, eabVars, blockVars>>
     ]_vars

\* UpdateReplacedOrder has marked one order replaced and the other order is
\* not marked.
C17_Witness ==
    \E t \in Threads :
        /\ pc[t] = "return"
        /\ ret[t].op = "UpdateReplacedOrder"
        /\ ret[t].err = ""
        /\ arg[t].shouldBeReplaced
        /\ ordReplaced[arg[t].originalOrder]
        /\ \E o \in Orders : ~ordReplaced[o]

\* --------------------------------------------------------------- C19
\* C19: a lookup followed by a change of the order is not one atomic step:
\* between the lookup of UpdateReplacedOrder and its order.Lock() the call
\* holds neither the store lock nor the order's lock, and between GetStatus
\* and order.Lock() GetOrderByID does not hold the order's lock, so other
\* goroutines can lock and change the order in between.
C19_NotAtomic ==
    \A t \in Threads :
        /\ pc[t] = "UpdateReplacedOrder_lock"
           => /\ mWriter # t /\ t \notin mReaders
              /\ ordWriter[arg[t].originalOrder] # t
              /\ t \notin ordReaders[arg[t].originalOrder]
        /\ pc[t] = "GetOrderByID_write"
           => /\ ordWriter[arg[t].order] # t
              /\ t \notin ordReaders[arg[t].order]

\* UpdateReplacedOrder has looked an order up and not yet locked it, while
\* GetOrderByID holds that order's lock and has written a status that is not
\* the one GetStatus gives for the order as it was when written.
C19_Witness ==
    \E t \in Threads, u \in Threads :
        /\ pc[t] = "UpdateReplacedOrder_lock"
        /\ pc[u] = "return"
        /\ ret[u].op = "GetOrderByID"
        /\ ret[u].val = arg[t].originalOrder
        /\ ordWriter[arg[t].originalOrder] = u
        /\ ordStatus[arg[t].originalOrder] # GetStatus(arg[t].originalOrder)

\* --------------------------------------------------------------- C18
\* C18: a ChangeAccountKey(A, newKey) that succeeds makes all its writes while
\* it holds the store lock exclusively, so that no GetAccountByID or
\* GetAccountByKey reads between them; when it returns the old fingerprint is
\* not a key of accountsByKeyID, the new fingerprint maps to A, A holds
\* newKey and accountsByID maps A's ID to A; and no write of the call changes
\* an entry or the key of another account.
C18_KeyChangeAtomic ==
    [][\A t \in Threads :
        /\ pc[t] \in {"ChangeAccountKey_delete", "ChangeAccountKey_install",
                      "ChangeAccountKey_republish"}
           => /\ mWriter = t
              /\ \A u \in Threads : pc[u] \notin {"GetAccountByID", "GetAccountByKey"}
              /\ pc'[t] # pc[t] =>
                    /\ \A k \in DOMAIN accountsByKeyID :
                          accountsByKeyID[k] # arg[t].acct
                          => Present(accountsByKeyID', k) /\ accountsByKeyID'[k] = accountsByKeyID[k]
                    /\ \A id \in DOMAIN accountsByID :
                          accountsByID[id] # arg[t].acct
                          => Present(accountsByID', id) /\ accountsByID'[id] = accountsByID[id]
                    /\ \A a \in Accts \ {arg[t].acct} : acctKey'[a] = acctKey[a]
        /\ (pc[t] = "ChangeAccountKey_republish" /\ pc'[t] # pc[t])
           => /\ ~Present(accountsByKeyID', arg[t].oldKeyID)
              /\ MapGet(accountsByKeyID', arg[t].newKeyID) = arg[t].acct
              /\ acctKey'[arg[t].acct] = arg[t].newKey
              /\ MapGet(accountsByID', acctID[arg[t].acct]) = arg[t].acct
      ]_vars
====
